---- MODULE Spec2Model ----
(***************************************************************************)
(* ScoutFox: the YouTube retrieval side of the background service worker  *)
(* (src/background/youtube.ts) and the title normalisation it uses        *)
(* (src/shared/config.ts).                                                 *)
(*                                                                         *)
(* Strings are sequences of one-character strings, so that toLowerCase,   *)
(* trim and split are computed the way the code computes them.            *)
(***************************************************************************)
EXTENDS Integers, Sequences, FiniteSets, TLC

(***************************************************************************)
(* Strings                                                                 *)
(***************************************************************************)
UpperChars == <<"A","B","C","D","E","F","G","H","I","J","K","L","M",
                "N","O","P","Q","R","S","T","U","V","W","X","Y","Z">>
LowerChars == <<"a","b","c","d","e","f","g","h","i","j","k","l","m",
                "n","o","p","q","r","s","t","u","v","w","x","y","z">>
DigitChars == {"0","1","2","3","4","5","6","7","8","9"}

\* String.prototype.toLowerCase, one character
toLowerChar(c) ==
    IF \E i \in 1..26 : UpperChars[i] = c
    THEN LowerChars[CHOOSE i \in 1..26 : UpperChars[i] = c]
    ELSE c

\* String.prototype.toLowerCase
toLowerCase(s) == [i \in 1..Len(s) |-> toLowerChar(s[i])]

\* the characters \s matches and trim() strips
IsSpace(c) == c \in {" ", "\t", "\n"}

\* the positions of s, in order
Indices(s) == [i \in 1..Len(s) |-> i]

\* the last index of the run of characters satisfying Is(_) that starts at
\* i, i - 1 when there is none
runOf(s, i, Is(_)) ==
    IF i <= Len(s) /\ Is(s[i])
    THEN CHOOSE k \in i..Len(s) :
             /\ \A m \in i..k : Is(s[m])
             /\ (k = Len(s) \/ ~Is(s[k + 1]))
    ELSE i - 1

trimStart(s) == SubSeq(s, runOf(s, 1, IsSpace) + 1, Len(s))

trimEnd(s) ==
    IF \E i \in 1..Len(s) : ~IsSpace(s[i])
    THEN SubSeq(s, 1, CHOOSE i \in 1..Len(s) :
                          ~IsSpace(s[i]) /\ \A m \in (i + 1)..Len(s) : IsSpace(s[m]))
    ELSE <<>>

\* String.prototype.trim
trim(s) == trimEnd(trimStart(s))

IsNonSpace(c) == ~IsSpace(c)

\* s.split(/\s+/): the runs of other characters, with an empty string in
\* front when s starts with whitespace (or is empty) and one behind when s
\* ends with whitespace
split(s) ==
    LET starts == SelectSeq(Indices(s),
                      LAMBDA i : ~IsSpace(s[i]) /\ (i = 1 \/ IsSpace(s[i - 1])))
        words  == [k \in 1..Len(starts) |->
                      SubSeq(s, starts[k], runOf(s, starts[k], IsNonSpace))]
    IN  (IF s = <<>> \/ IsSpace(s[1]) THEN <<(<<>>)>> ELSE <<>>)
        \o words
        \o (IF s # <<>> /\ IsSpace(s[Len(s)]) THEN <<(<<>>)>> ELSE <<>>)

\* words.join(' '), computed by halves
RECURSIVE join(_)
join(ws) ==
    IF ws = <<>> THEN <<>>
    ELSE IF Len(ws) = 1 THEN ws[1]
    ELSE LET h == Len(ws) \div 2
         IN  join(SubSeq(ws, 1, h)) \o <<" ">> \o join(SubSeq(ws, h + 1, Len(ws)))

\* s.includes(p)
includes(s, p) ==
    \E i \in 1..(Len(s) - Len(p) + 1) : SubSeq(s, i, i + Len(p) - 1) = p


\* the characters \w matches
IsWordChar(c) ==
    \/ \E i \in 1..26 : c = UpperChars[i] \/ c = LowerChars[i]
    \/ c \in DigitChars
    \/ c = "_"

IsLetter(c) == \E i \in 1..26 : c = UpperChars[i] \/ c = LowerChars[i]

\* the maximal runs of \w characters of s, as <<first, last>> index pairs
WordRuns(s) ==
    LET starts == SelectSeq(Indices(s),
                      LAMBDA i : IsWordChar(s[i]) /\ (i = 1 \/ ~IsWordChar(s[i - 1])))
    IN  [k \in 1..Len(starts) |-> <<starts[k], runOf(s, starts[k], IsWordChar)>>]

\* decimal digits: statistics.viewCount / likeCount arrive as decimal strings
DigitValue(c) == CHOOSE n \in 0..9 : <<"0","1","2","3","4","5","6","7","8","9">>[n + 1] = c

\* parseInt(s, 10) of a string of decimal digits
RECURSIVE parseInt(_)
parseInt(s) ==
    IF s = <<>> THEN 0
    ELSE 10 * parseInt(SubSeq(s, 1, Len(s) - 1)) + DigitValue(s[Len(s)])

(***************************************************************************)
(* Title normalisation and query variants (src/shared/config.ts)           *)
(***************************************************************************)
Str_new      == <<"n","e","w">>
Str_latest   == <<"l","a","t","e","s","t">>
Str_with     == <<"w","i","t","h">>
Str_includes == <<"i","n","c","l","u","d","e","s">>
Str_pack_of  == <<"p","a","c","k"," ","o","f">>
Str_set_of   == <<"s","e","t"," ","o","f">>
Str_bundle   == <<"b","u","n","d","l","e">>
Str_premium  == <<"p","r","e","m","i","u","m">>
Str_professional == <<"p","r","o","f","e","s","s","i","o","n","a","l">>
Str_pro      == <<"p","r","o">>
Str_plus     == <<"p","l","u","s">>
Str_max      == <<"m","a","x">>
Str_ultra    == <<"u","l","t","r","a">>
Str_updated  == <<"u","p","d","a","t","e","d">>
Str_upgraded == <<"u","p","g","r","a","d","e","d">>
Str_enhanced == <<"e","n","h","a","n","c","e","d">>
Str_improved == <<"i","m","p","r","o","v","e","d">>

MARKETING_WORDS ==
    { Str_new, Str_latest,
      <<"2","0","2","4">>, <<"2","0","2","5">>, <<"2","0","2","3">>,
      <<"2","0","2","2">>, <<"2","0","2","1">>,
      Str_with, Str_includes, Str_pack_of, Str_set_of, Str_bundle,
      Str_premium, Str_professional, Str_pro, Str_plus, Str_max, Str_ultra,
      Str_updated, Str_upgraded, Str_enhanced, Str_improved }

\* SEPARATORS: hyphen, pipe, em dash, colon, bullet (the two non-ASCII
\* characters are written as the one-character tokens "EMDASH", "BULLET")
SEPARATORS == {"-", "|", "EMDASH", ":", "BULLET"}

\* s.substring(i - 1) for a 1-based i
dropBefore(s, i) == SubSeq(s, i, Len(s))

\* p occurs in s at position i
startsWithAt(s, i, p) ==
    i + Len(p) - 1 <= Len(s) /\ SubSeq(s, i, i + Len(p) - 1) = p

\* the same, ignoring case (p is lowercase): a pattern with the i flag
startsWithAtCI(s, i, p) ==
    i + Len(p) - 1 <= Len(s) /\ toLowerCase(SubSeq(s, i, i + Len(p) - 1)) = p

\* a position of a replaced match that yields no character
Dropped == "<dropped>"

\* s.replace(/p/g, r) for a literal p no two occurrences of which overlap
\* and an r of one character, or none (Dropped)
replaceAll(s, p, r) ==
    LET at(i) == startsWithAt(s, i, p)
        inside(i) == \E j \in (i - Len(p) + 1)..(i - 1) : j >= 1 /\ at(j)
        marked == [i \in 1..Len(s) |->
                      IF at(i) THEN r ELSE IF inside(i) THEN Dropped ELSE s[i]]
    IN  SelectSeq(marked, LAMBDA c : c # Dropped)

\* the six replace() calls that decode HTML entities, in the code's order
decodeEntities(text) ==
    LET r1 == replaceAll(text, <<"&","a","m","p",";">>, "&")
        r2 == replaceAll(r1, <<"&","l","t",";">>, "<")
        r3 == replaceAll(r2, <<"&","g","t",";">>, ">")
        r4 == replaceAll(r3, <<"&","q","u","o","t",";">>, "\"")
        r5 == replaceAll(r4, <<"&","#","3","9",";">>, "'")
    IN  replaceAll(r5, <<"&","n","b","s","p",";">>, " ")

\* normalized.replace(SEPARATORS, ' ')
replaceSeparators(s) == [i \in 1..Len(s) |-> IF s[i] \in SEPARATORS THEN " " ELSE s[i]]

\* the characters that end the [^|—:•]+ of BRAND_PREFIX and VENDOR_SUFFIX
StopChars == {"|", "EMDASH", ":", "BULLET"}

\* "by", in any case, at position i
IsBy(s, i) ==
    i + 1 <= Len(s) /\ toLowerChar(s[i]) = "b" /\ toLowerChar(s[i + 1]) = "y"

\* the last index of the longest run of characters outside StopChars from i
runEnd(s, i) ==
    IF \E k \in i..Len(s) : s[k] \in StopChars
    THEN (CHOOSE k \in i..Len(s) :
              s[k] \in StopChars /\ \A m \in i..(k - 1) : s[m] \notin StopChars) - 1
    ELSE Len(s)

\* .replace(BRAND_PREFIX, ''): /^by\s+[^|—:•]+/i
removeBrandPrefix(s) ==
    IF IsBy(s, 1) /\ Len(s) >= 4 /\ IsSpace(s[3]) /\ s[4] \notin StopChars
    THEN dropBefore(s, runEnd(s, 4) + 1)
    ELSE s

\* VENDOR_SUFFIX /\s+by\s+[^|—:•]+$/i matches from position i to the end
vendorSuffixAt(s, i) ==
    /\ IsSpace(s[i])
    /\ \E j \in i..Len(s) :
          /\ \A k \in i..j : IsSpace(s[k])
          /\ IsBy(s, j + 1)
          /\ j + 4 <= Len(s)
          /\ IsSpace(s[j + 3])
          /\ \A k \in (j + 4)..Len(s) : s[k] \notin StopChars

\* .replace(VENDOR_SUFFIX, ''): the leftmost match goes
removeVendorSuffix(s) ==
    IF \E i \in 1..Len(s) : vendorSuffixAt(s, i)
    THEN SubSeq(s, 1, (CHOOSE i \in 1..Len(s) :
                          vendorSuffixAt(s, i)
                          /\ \A m \in 1..(i - 1) : ~vendorSuffixAt(s, m)) - 1)
    ELSE s

\* REMOVABLE_PARENTHETICAL
REMOVABLE_PARENTHETICAL ==
    { <<"(">> \o w \o <<")">> :
        w \in {Str_updated, Str_upgraded, Str_enhanced, Str_new, Str_latest} }

\* normalized.replace(REMOVABLE_PARENTHETICAL, ''): the matches start with
\* "(" and hold no other, so no two overlap
removeRemovable(s) ==
    LET matchLen(i) ==
            IF \E p \in REMOVABLE_PARENTHETICAL : startsWithAtCI(s, i, p)
            THEN Len(CHOOSE p \in REMOVABLE_PARENTHETICAL : startsWithAtCI(s, i, p))
            ELSE 0
        inMatch(i) == \E j \in 1..i : s[j] = "(" /\ j + matchLen(j) > i
    IN  [k \in 1..Len(SelectSeq(Indices(s), LAMBDA i : ~inMatch(i))) |->
            s[SelectSeq(Indices(s), LAMBDA i : ~inMatch(i))[k]]]

\* the units of PRESERVE_PARENTHETICAL
PRESERVE_UNITS ==
    { <<"g","b">>, <<"t","b">>, <<"m","b">>, <<"i","n","c","h">>, <<"i","n","c","h","e","s">>, <<"m","m">>, <<"c","m">>, <<"g","e","n">>, <<"g","e","n","e","r","a","t","i","o","n">>,
      <<"t","h">>, <<"n","d">>, <<"r","d">>, <<"s","t">> }

IsDigit(c) == c \in DigitChars

\* the length of the match of PRESERVE_PARENTHETICAL at position i of s, 0
\* when it does not match there: \( \d+ \s* unit \)
preserveMatchLen(s, i) ==
    IF i <= Len(s) /\ s[i] = "("
    THEN LET d == runOf(s, i + 1, IsDigit)
             w == runOf(s, d + 1, IsSpace)
             units == { u \in PRESERVE_UNITS :
                          /\ startsWithAtCI(s, w + 1, u)
                          /\ w + Len(u) + 1 <= Len(s)
                          /\ s[w + Len(u) + 1] = ")" }
         IN  IF d >= i + 1 /\ units # {}
             THEN w + Len(CHOOSE u \in units : TRUE) + 1 - (i - 1)
             ELSE 0
    ELSE 0

\* the matches of PRESERVE_PARENTHETICAL in s, left to right, as
\* <<first, length>> pairs (a match starts with "(" and holds no other)
preserveMatches(s) ==
    LET starts == SelectSeq(Indices(s), LAMBDA i : preserveMatchLen(s, i) > 0)
    IN  [k \in 1..Len(starts) |-> <<starts[k], preserveMatchLen(s, starts[k])>>]

\* String(n) for n >= 0
RECURSIVE decimal(_)
decimal(n) ==
    IF n < 10 THEN <<(<<"0","1","2","3","4","5","6","7","8","9">>)[n + 1]>>
    ELSE decimal(n \div 10) \o decimal(n % 10)

Str_PRESERVE == <<"_","_","P","R","E","S","E","R","V","E","_">>
Str_preserve == <<"_","_","p","r","e","s","e","r","v","e","_">>

\* s with its matches ms replaced by ` __PRESERVE_<index>__ `, from match k
\* and position `from` on
RECURSIVE markedText(_, _, _, _)
markedText(s, ms, k, from) ==
    IF k > Len(ms) THEN SubSeq(s, from, Len(s))
    ELSE SubSeq(s, from, ms[k][1] - 1)
             \o <<" ">> \o Str_PRESERVE \o decimal(k - 1) \o <<"_", "_", " ">>
             \o markedText(s, ms, k + 1, ms[k][1] + ms[k][2])

\* normalized.replace(PRESERVE_PARENTHETICAL, ...): each match is pushed on
\* `preserved` and replaced by its marker
markPreserved(s) ==
    LET ms == preserveMatches(s)
    IN  [text |-> markedText(s, ms, 1, 1),
         preserved |-> [k \in 1..Len(ms) |->
                           SubSeq(s, ms[k][1], ms[k][1] + ms[k][2] - 1)]]

\* /^20[0-9]{2}$/
IsYearToken(w) ==
    /\ Len(w) = 4
    /\ w[1] = "2" /\ w[2] = "0"
    /\ w[3] \in DigitChars /\ w[4] \in DigitChars

\* the filter of normalizeText
KeepWord(w) ==
    /\ Len(w) >= 2
    /\ w \notin MARKETING_WORDS
    /\ ~IsYearToken(w)

\* word.match(/^__preserve_(\d+)__$/)
IsMarker(w) ==
    /\ Len(w) >= Len(Str_preserve) + 3
    /\ SubSeq(w, 1, Len(Str_preserve)) = Str_preserve
    /\ SubSeq(w, Len(w) - 1, Len(w)) = <<"_", "_">>
    /\ \A k \in (Len(Str_preserve) + 1)..(Len(w) - 2) : w[k] \in DigitChars

\* parseInt(match[1], 10)
markerIndex(w) == parseInt(SubSeq(w, Len(Str_preserve) + 1, Len(w) - 2))

\* .map(w => w.trim().toLowerCase())
lowerWords(parts) == [i \in 1..Len(parts) |-> toLowerCase(trim(parts[i]))]

\* .split(/\s+/).map(...).filter(...) of the marked text
filterWords(marked) ==
    [words |-> SelectSeq(lowerWords(split(marked.text)), KeepWord),
     preserved |-> marked.preserved]

\* normalizeText up to the filter: the words, and the parentheticals set aside
normalizeWords(text) ==
    filterWords(markPreserved(
                    removeRemovable(
                        removeVendorSuffix(
                            removeBrandPrefix(
                                replaceSeparators(decodeEntities(text)))))))

\* preserved[preserveIdx].toLowerCase() with preserved[preserveIdx] undefined
restoreThrows(n) ==
    \E i \in 1..Len(n.words) :
        IsMarker(n.words[i]) /\ markerIndex(n.words[i]) >= Len(n.preserved)

\* normalizeText throws a TypeError
normalizeTextThrows(text) == restoreThrows(normalizeWords(text))

\* words[idx] = preserved[preserveIdx].toLowerCase() for a word that is a marker
restoreWord(w, preserved) ==
    IF IsMarker(w) /\ markerIndex(w) < Len(preserved)
    THEN toLowerCase(preserved[markerIndex(w) + 1])
    ELSE w

\* words.forEach(...) and words.join(' ').trim()
restoreWords(n) ==
    trim(join([i \in 1..Len(n.words) |-> restoreWord(n.words[i], n.preserved)]))

\* normalizeText, when it does not throw
normalizeText(text) == restoreWords(normalizeWords(text))

\* normalized.replace(/\s+/g, ' ')
collapseWs(s) ==
    LET kept == SelectSeq(Indices(s),
                    LAMBDA i : ~IsSpace(s[i]) \/ i = 1 \/ ~IsSpace(s[i - 1]))
    IN  [k \in 1..Len(kept) |-> IF IsSpace(s[kept[k]]) THEN " " ELSE s[kept[k]]]

\* s.lastIndexOf(' '), 0-based, -1 when absent
lastIndexOfSpace(s) ==
    IF \E i \in 1..Len(s) : s[i] = " "
    THEN (CHOOSE i \in 1..Len(s) :
              s[i] = " " /\ \A j \in (i + 1)..Len(s) : s[j] # " ") - 1
    ELSE -1

MaxQueryLength == 120
WordBoundaryFloor == 80

\* s.substring(0, n)
substring0(s, n) == SubSeq(s, 1, IF n < Len(s) THEN n ELSE Len(s))

\* a \w run of the form [a-z]+\d+[a-z]* or \d+[a-z]+ (case-insensitive)
IsModelToken(w) ==
    \/ \E a \in 1..Len(w), b \in 1..Len(w) :
          /\ a < b
          /\ \A k \in 1..a : IsLetter(w[k])
          /\ \A k \in (a + 1)..b : w[k] \in DigitChars
          /\ \A k \in (b + 1)..Len(w) : IsLetter(w[k])
    \/ \E a \in 1..Len(w) :
          /\ a < Len(w)
          /\ \A k \in 1..a : w[k] \in DigitChars
          /\ \A k \in (a + 1)..Len(w) : IsLetter(w[k])

\* a missing (null or undefined) string
NoString == <<"<undefined>">>

\* \b before position i of s, for a pattern that starts with a \w character
boundaryBefore(s, i) == i = 1 \/ ~IsWordChar(s[i - 1])
\* \b after position i of s, for a pattern that ends with a \w character
boundaryAfter(s, i) == i = Len(s) \/ ~IsWordChar(s[i + 1])

SIZE_UNITS == { <<"g","b">>, <<"t","b">>, <<"m","b">>, <<"i","n","c","h">>, <<"i","n","c","h","e","s">>, <<"m","m">>, <<"c","m">> }
TECH_TERMS == { <<"w","i","r","e","l","e","s","s">>, <<"b","l","u","e","t","o","o","t","h">>, <<"4","k">>, <<"8","k">>, <<"o","l","e","d">>, <<"l","e","d">>, <<"h","d","r">> }
Str_noise == <<"n","o","i","s","e">>
Str_cancelling == <<"c","a","n","c","e","l","l","i","n","g">>

\* /\b([a-z]+\d+|\d+[a-z]+|[a-z]+\d+[a-z]+)\b/i.test(subtitle)
anyModelToken(subtitle, runs) ==
    \E k \in 1..Len(runs) : IsModelToken(SubSeq(subtitle, runs[k][1], runs[k][2]))

hasModelNumber(subtitle) == anyModelToken(subtitle, WordRuns(subtitle))

\* /\b(\d+\s*(gb|tb|mb|inch|inches|mm|cm))\b/i.test(subtitle)
hasSize(subtitle) ==
    \E i \in 1..Len(subtitle) :
        /\ boundaryBefore(subtitle, i)
        /\ subtitle[i] \in DigitChars
        /\ LET w == runOf(subtitle, runOf(subtitle, i, IsDigit) + 1, IsSpace)
           IN  \E u \in SIZE_UNITS :
                   /\ startsWithAtCI(subtitle, w + 1, u)
                   /\ boundaryAfter(subtitle, w + Len(u))

\* /\b(noise\s*cancelling|wireless|bluetooth|4k|8k|oled|led|hdr)\b/i.test(subtitle)
hasTechTerm(subtitle) ==
    \E i \in 1..Len(subtitle) :
        /\ boundaryBefore(subtitle, i)
        /\ \/ \E t \in TECH_TERMS :
                 /\ startsWithAtCI(subtitle, i, t)
                 /\ boundaryAfter(subtitle, i + Len(t) - 1)
           \/ /\ startsWithAtCI(subtitle, i, Str_noise)
              /\ LET w == runOf(subtitle, i + Len(Str_noise), IsSpace)
                 IN  /\ startsWithAtCI(subtitle, w + 1, Str_cancelling)
                     /\ boundaryAfter(subtitle, w + Len(Str_cancelling))

SubtitleValueLength == 10

\* subtitleAddsValue (when normalizeText(subtitle) does not throw)
subtitleAddsValue(subtitle) ==
    \/ hasModelNumber(subtitle)
    \/ hasSize(subtitle)
    \/ hasTechTerm(subtitle)
    \/ Len(normalizeText(subtitle)) > SubtitleValueLength

\* `subtitle && subtitle.trim()`
subtitleGiven(subtitle) ==
    subtitle # NoString /\ subtitle # <<>> /\ trim(subtitle) # <<>>

\* normalizeAmazonTitleToSearch(title, subtitle) throws: one of its
\* normalizeText calls does
normalizeThrows(title, subtitle) ==
    /\ title # <<>> /\ trim(title) # <<>>
    /\ \/ normalizeTextThrows(title)
       \/ subtitleGiven(subtitle) /\ normalizeTextThrows(subtitle)

\* the last steps of normalizeAmazonTitleToSearch: collapse, trim, cut
\* `if (lastSpace > 80) normalized = normalized.substring(0, lastSpace)`
cutAtWord(cut, lastSpace) ==
    IF lastSpace > WordBoundaryFloor THEN substring0(cut, lastSpace) ELSE cut

\* `normalized.substring(0, 120).trim()` and the cut at the last space
cutAtLength(cut) == cutAtWord(cut, lastIndexOfSpace(cut))

\* a normalizer that never cuts
limitNormalizedUncut(normalized) == normalized

\* `if (normalized.length > 120)`
limitNormalized(normalized) ==
    IF Len(normalized) > MaxQueryLength
    THEN cutAtLength(trim(substring0(normalized, MaxQueryLength)))
    ELSE normalized

limitLength(merged) == limitNormalized(trim(collapseWs(merged)))

\* normalizeAmazonTitleToSearch(title, subtitle), when it does not throw
\* `if (normalizedSubtitle) normalized = `${normalized} ${normalizedSubtitle}``
appendSubtitle(normalized, normalizedSubtitle) ==
    IF normalizedSubtitle # <<>>
    THEN normalized \o <<" ">> \o normalizedSubtitle
    ELSE normalized

normalizeTitleAndSubtitle(title, subtitle) ==
    IF title = <<>> \/ trim(title) = <<>> THEN <<>>
    ELSE limitLength(
             IF subtitleGiven(subtitle) /\ subtitleAddsValue(subtitle)
             THEN appendSubtitle(normalizeText(title), normalizeText(subtitle))
             ELSE normalizeText(title))

\* normalizeAmazonTitleToSearch with subtitle null or empty
normalizeAmazonTitleToSearch(title) == normalizeTitleAndSubtitle(title, NoString)


\* extractBrandModel
extractBrandModel(text) ==
    LET words == split(text)
        runs  == WordRuns(text)
        tok(r) == SubSeq(text, r[1], r[2])
        hits  == SelectSeq(runs, LAMBDA r : IsModelToken(tok(r)))
    IN  [brand |-> IF words[1] = <<>> THEN NoString ELSE words[1],
         model |-> IF hits = <<>> THEN NoString ELSE tok(hits[1])]

Str_review   == <<" ","r","e","v","i","e","w">>
Str_unboxing == <<" ","u","n","b","o","x","i","n","g">>
Str_hands_on == <<" ","h","a","n","d","s"," ","o","n">>
Str_vs       == <<" ","v","s"," ">>

QUALIFIERS == {Str_pro, Str_plus, Str_max, Str_ultra}

\* normalized.replace(/\b(pro|plus|max|ultra)\b/gi, ''): the characters of s
\* outside the \w runs that are one of the four words
dropRuns(s, runs) ==
    LET dropped(i) == \E k \in 1..Len(runs) :
                          /\ runs[k][1] <= i /\ i <= runs[k][2]
                          /\ toLowerCase(SubSeq(s, runs[k][1], runs[k][2])) \in QUALIFIERS
        kept == SelectSeq(Indices(s), LAMBDA i : ~dropped(i))
    IN  [k \in 1..Len(kept) |-> s[kept[k]]]

MaxQueries == 5

\* generateSearchQueries from the normalized query on
\* `if (brand && model) queries.push(`${brand} ${model} review`)`
brandModelQuery(bm) ==
    IF bm.brand # NoString /\ bm.model # NoString
    THEN <<bm.brand \o <<" ">> \o bm.model \o Str_review>> ELSE <<>>

\* /\b(pro|plus|max|ultra)\b/i.test(normalized)
hasQualifier(normalized, runs) ==
    \E i \in 1..Len(runs) :
        toLowerCase(SubSeq(normalized, runs[i][1], runs[i][2])) \in QUALIFIERS

\* `if (baseWithoutPro && baseWithoutPro !== normalized)
\*      queries.push(`${normalized} vs ${baseWithoutPro}`)`
versusQuery(normalized, baseWithoutPro) ==
    IF baseWithoutPro # <<>> /\ baseWithoutPro # normalized
    THEN <<normalized \o Str_vs \o baseWithoutPro>> ELSE <<>>

\* the comparison query of a normalized query whose \w runs are `runs`
comparisonQuery(normalized, runs) ==
    IF hasQualifier(normalized, runs)
    THEN versusQuery(normalized, trim(dropRuns(normalized, runs)))
    ELSE <<>>

\* queries.slice(0, 5)
sliceQueries(queries) ==
    SubSeq(queries, 1, IF Len(queries) < MaxQueries THEN Len(queries) ELSE MaxQueries)

queriesOf(normalized) ==
    IF normalized = <<>> THEN <<>>
    ELSE sliceQueries(<<normalized \o Str_review, normalized \o Str_unboxing>>
                      \o brandModelQuery(extractBrandModel(normalized))
                      \o <<normalized \o Str_hands_on>>
                      \o comparisonQuery(normalized, WordRuns(normalized)))

\* generateSearchQueries(title, subtitle), when it does not throw
generateQueriesWithSubtitle(title, subtitle) ==
    queriesOf(normalizeTitleAndSubtitle(title, subtitle))

\* generateSearchQueries with subtitle null or empty
generateSearchQueries(title) == queriesOf(normalizeAmazonTitleToSearch(title))

(***************************************************************************)
(* Values exchanged with the outside world                                 *)
(***************************************************************************)
\* an optional value: <<>> when the property is missing, <<x>> otherwise
None == <<>>
Some(x) == <<x>>

NoKey == ""
Keys == {"k1", "k2"}

Str_Echo_Dot  == <<"E","c","h","o"," ","D","o","t">>
Str_ECHO_DOT  == <<"E","C","H","O"," ","D","O","T">>
Str_echo_dot_ == <<"e","c","h","o"," ","d","o","t"," ">>
Str_echo__dot == <<"e","c","h","o"," "," ","d","o","t">>
Str_New       == <<"N","e","w">>
Str_ai_title  == <<"e","c","h","o"," ","d","o","t"," ","5">>

\* the searchYouTubeForProduct messages: title and useAI
ProductMessages ==
    { [title |-> <<>>, useAI |-> FALSE],
      [title |-> Str_New, useAI |-> FALSE],
      [title |-> Str_Echo_Dot, useAI |-> FALSE],
      [title |-> Str_Echo_Dot, useAI |-> TRUE] }
\* message.query of a searchYouTube message
RawQueries == {Str_Echo_Dot, Str_ECHO_DOT, Str_echo_dot_, Str_echo__dot}

\* items of a search.list answer: id.videoId and snippet.channelTitle
Hit(videoId, channelTitle) == [videoId |-> videoId, channelTitle |-> channelTitle]
SearchItemChoices ==
    { <<>>,
      <<Hit("", "Chan")>>,
      <<Hit("v1", ""), Hit("", "Chan")>> }

\* items of a videos.list answer: id and statistics
Stat(id, viewCount, likeCount) == [id |-> id, viewCount |-> viewCount, likeCount |-> likeCount]
StatsItemChoices ==
    { <<>>,
      <<Stat("v1", Some(<<"4","2">>), None)>> }

\* what one fetch() of a provider endpoint can produce: a rejected fetch, or
\* a response with a status, a body that is JSON or not, and (for a failure)
\* whether the text of the resulting error message contains 'rate limit'
ProviderStatuses == {200, 429, 403, 400}
ProviderResponses(ItemChoices) ==
    { [kind |-> "network", status |-> 0, body |-> "none", rl |-> FALSE, items |-> <<>>] }
    \cup { [kind |-> "http", status |-> st, body |-> "malformed", rl |-> rl, items |-> <<>>] :
             st \in ProviderStatuses, rl \in BOOLEAN }
    \cup { [kind |-> "http", status |-> 200, body |-> "json", rl |-> FALSE, items |-> it] :
             it \in ItemChoices }
    \cup { [kind |-> "http", status |-> st, body |-> "json", rl |-> FALSE, items |-> <<>>] :
             st \in {429, 403} }
    \cup { [kind |-> "http", status |-> 400, body |-> "json", rl |-> rl, items |-> <<>>] :
             rl \in BOOLEAN }

\* the answers of the provider that the orchestrator is explored with: a
\* rejected fetch, a rate-limited answer, a success
BasicProviderResponses(ItemChoices) ==
    { r \in ProviderResponses(ItemChoices) :
        \/ r.kind = "network"
        \/ r.kind = "http" /\ r.body = "json" /\ r.status \in {200, 429} }

\* the answers without a rate limit: a failed fetch, or 200 with a JSON body
PlainProviderResponses(ItemChoices) ==
    { r \in ProviderResponses(ItemChoices) :
        \/ r.kind = "network"
        \/ r.kind = "http" /\ r.body = "json" /\ r.status = 200 }

\* VideoResult
VideoResult(videoId, channelTitle, viewCount, likeCount) ==
    [videoId |-> videoId, channelTitle |-> channelTitle,
     viewCount |-> viewCount, likeCount |-> likeCount]

\* entries of the proxy's legacy `videos` array
LegacyVideo(videoId, channelName, channelTitle, viewCount) ==
    [videoId |-> videoId, channelName |-> channelName,
     channelTitle |-> channelTitle, viewCount |-> viewCount, likeCount |-> None]

ProxyResultChoices ==
    { None, Some(<<>>), Some(<<VideoResult("p1", "Chan", 5, None)>>) }
ProxyVideoChoices ==
    { None, Some(<<>>),
      Some(<<LegacyVideo("p2", Some("Name"), None, None)>>),
      Some(<<LegacyVideo("p3", None, Some("Chan"), Some(9))>>) }

\* what the fetch() of the proxy can produce
ProxyResponses ==
    { [kind |-> k, status |-> 0, quota |-> FALSE, success |-> FALSE,
       results |-> None, videos |-> None] : k \in {"abort", "network"} }
    \cup { [kind |-> "nonok", status |-> 500, quota |-> q, success |-> FALSE,
            results |-> None, videos |-> None] : q \in BOOLEAN }
    \cup { [kind |-> "malformed", status |-> 200, quota |-> FALSE, success |-> FALSE,
            results |-> None, videos |-> None] }
    \cup { [kind |-> "ok", status |-> 200, quota |-> q, success |-> su,
            results |-> rs, videos |-> vs] :
             q \in BOOLEAN, su \in BOOLEAN,
             rs \in ProxyResultChoices, vs \in ProxyVideoChoices }

\* Error objects: constructor name, message, and whether the message
\* contains the substring 'rate limit'
Err(name, message, rl) == [name |-> name, message |-> message, rl |-> rl]
NoError == Err("", "", FALSE)

MsgTitleRequired  == "Title is required"
MsgKeyRequired    == "API key is required"
MsgUnavailable    == "Backend service unavailable and no API keys configured. Please check your connection or configure API keys in settings."
MsgOwnKeyMissing  == "Your YouTube API key is not configured. Please add it in settings."
MsgKeyNotConfigured == "YouTube API key not configured. Backend service is used by default, but API key is needed if backend is unavailable."
MsgSearchRetries  == "Failed to search YouTube after retries"
MsgStatsRetries   == "Failed to fetch video statistics after retries"
MsgApiError       == "YouTube API error: <data.error.message or Unknown error>"
MsgFailedToFetch  == "Failed to fetch"
MsgJsonSyntax     == "<JSON parse error>"

(***************************************************************************)
(* Program constants (src/background/youtube.ts)                           *)
(***************************************************************************)
CACHE_TTL    == 24 * 60 * 60 * 1000     \* DEFAULT_CONFIG.cacheTTL
MAX_RESULTS  == 6                       \* DEFAULT_CONFIG.maxResults
RETRIES      == 3                       \* let retries = 3
BACKOFF_MS   == 1000                    \* let backoffMs = 1000

\* bounds of the model
MaxCalls == 2          \* searchYouTube messages in one behaviour
MaxRetryCalls == 1     \* searchYouTube messages in one behaviour, every answer explored
MaxProductCalls == 1   \* searchYouTubeForProduct / setApiKey messages in one behaviour
MaxTicks == 1          \* clock steps in one behaviour
MaxCandidates == 2     \* length of the products array of a backend answer
TickMs   == CACHE_TTL \div 2

(***************************************************************************)
(* State                                                                   *)
(***************************************************************************)
VARIABLES
    config,     \* the module-level `config` object: [apiKey]
    storage,    \* chrome.storage.local: youtubeApiKey, useOwnYouTubeKey
    cache,      \* chrome.storage.local: the youtube_search_* entries
    now,        \* Date.now()
    pc,         \* where the message handler in progress is suspended
    msg,        \* the runtime message being handled
    local,      \* locals of searchYouTubeForProduct: useOwnKey, storage.youtubeApiKey,
                \* queries, the loop index, apiKey
    sy,         \* parameters of the searchYouTube call in progress
    api,        \* locals of the searchYouTubeAPI call in progress
    stats,      \* locals of the fetchVideoStatistics call in progress
    response,   \* what sendResponse was called with
    trace,      \* history of the call in progress (not program state)
    cachedFor,  \* for each cache key, the query string of the put that wrote it (history)
    calls,      \* number of messages received
    ticks,      \* number of clock steps
    popup,      \* the popup's handleSearch in progress, and what it showed
    llm,        \* the extractProductsWithLLM call in progress, and its outcome
    norm,       \* the call of a function of config.ts or of
                \* regexFallbackNormalize.ts, and what it returned
    other,      \* a second message handler, suspended while the first one runs:
                \* its pc, msg, local, sy, api, stats, response, trace
    settings,   \* the settings page: what the user did to the YouTube API key
    auto        \* the auto_search_<asin> entries of chrome.storage.local, and the
                \* AMAZON_PRODUCT_DETECTED message in progress

vars == <<config, storage, cache, now, pc, msg, local, sy, api, stats,
          response, trace, cachedFor, calls, ticks, popup, llm, norm, other,
          settings, auto>>

NoMsg == [action |-> "none", title |-> <<>>, query |-> <<>>,
          useAI |-> FALSE, bypassCache |-> FALSE, apiKey |-> NoKey]
NoLocal == [useOwnKey |-> FALSE, storedKey |-> NoKey, queries |-> <<>>, qi |-> 0,
            apiKey |-> NoKey]
NoSy == [query |-> <<>>, bypassCache |-> FALSE]
NoApi == [retries |-> 0, backoffMs |-> 0, items |-> <<>>]
NoStats == [retries |-> 0, backoffMs |-> 0]
NoResponse == [sent |-> FALSE, success |-> FALSE, data |-> <<>>, error |-> ""]
\* popup.backend: the answer of the backend to the popup's own request
\*   ("none" while there is none), popup.backendRequests: how many requests
\*   the popup sent to the backend, popup.timerAt: when the popup set its
\*   latest 15 s timer
NoPopup == [pc |-> "idle", title |-> <<>>, backend |-> "none",
            backendRequests |-> 0, results |-> <<>>, error |-> "",
            timerAt |-> 0]
\* JSON values as JavaScript sees them: t is what distinguishes undefined,
\* null, strings, numbers, objects and arrays; numbers are confidences in
\* hundredths (0.5 is 50)
JsUndefined == [t |-> "undefined", s |-> "", n |-> 0]
JsNull      == [t |-> "null", s |-> "", n |-> 0]
JsString(x) == [t |-> "string", s |-> x, n |-> 0]
JsNumber(k) == [t |-> "number", s |-> "", n |-> k]

NoBody == [products |-> [t |-> "undefined", items |-> <<>>],
           productName |-> JsUndefined, confidence |-> JsUndefined]

\* llm.answer: the answer of the backend that extractProductsWithLLM received
\*   (history), llm.fn: the function that was called, llm.single: what
\*   extractProductWithLLM returned
NoLlm == [pc |-> "idle", fn |-> "", answer |-> [kind |-> "none", body |-> NoBody],
          threw |-> FALSE,
          message |-> "", products |-> <<>>, single |-> <<>>]

\* trace.proxy: what the proxy answered (ProxyAnswerKind), "none" when it
\*   was not asked; trace.proxyBody: the array it sent; trace.keys: the API
\*   keys that the provider requests of the call carried in their URL
\* trace.searched: one entry per finished searchYouTube call of the loop
\* trace.sAttempts / vAttempts: the answers received by the provider call in
\*   progress (search / statistics), trace.sSleeps / vSleeps: its delay()s
\* trace.sEnd / vEnd: how the last provider call ended
\* trace.requested: a provider HTTP request was issued for this message
\* trace.put: the entry that this call's setCachedResults stored;
\*   trace.putLast: no other setCachedResults ran since
\* trace.ai: how optimizeTitleForYouTube settled ("none" when not called)
NoTrace == [proxy |-> "none", proxyBody |-> <<>>, keys |-> {}, searched |-> <<>>,
            sAttempts |-> <<>>, sSleeps |-> <<>>, sEnd |-> "none", sError |-> NoError,
            vAttempts |-> <<>>, vSleeps |-> <<>>, vEnd |-> "none", vError |-> NoError,
            requested |-> FALSE, cacheHit |-> FALSE, put |-> <<>>, putLast |-> FALSE,
            ai |-> "none"]

\* norm.fn: the function that was called, with norm.title and norm.subtitle
\*   (norm.subtitle also holds the description of the fallback normaliser);
\*   norm.threw: it raised; norm.out: the string it returned; norm.queries:
\*   the list it returned
NoNorm == [pc |-> "idle", fn |-> "", title |-> <<>>, subtitle |-> NoString,
           threw |-> FALSE, out |-> <<>>, queries |-> <<>>]

\* settings.pc: "idle", "saved" after a key was saved, "deleting" while the
\*   setApiKey message of a deletion is on its way, "deleted" after it;
\*   settings.deletedKey: the key that was deleted
NoSettings == [pc |-> "idle", deletedKey |-> NoKey]

\* auto.entries: for each ASIN the stored {results, fetchedAt};
\*   auto.asin: the ASIN of the message in progress; auto.results: what its
\*   search returned; auto.sent: the types of the messages sent to the tab
\*   for it, in order; auto.hadFresh: an entry younger than 24 h was stored
\*   when the handler read the cache, auto.put: the handler stored an entry
\*   (both history)
NoAuto == [entries |-> << >>, asin |-> "", results |-> <<>>, sent |-> <<>>,
           hadFresh |-> FALSE, put |-> FALSE]

NoOther == [pc |-> "idle", msg |-> NoMsg, local |-> NoLocal, sy |-> NoSy, api |-> NoApi,
            stats |-> NoStats, response |-> NoResponse, trace |-> NoTrace]

\* the part of the state the handler steps read and write, as one record
World ==
    [config |-> config, storage |-> storage, cache |-> cache, now |-> now,
     pc |-> pc, msg |-> msg, local |-> local, sy |-> sy, api |-> api,
     stats |-> stats, response |-> response, trace |-> trace,
     cachedFor |-> cachedFor, popup |-> popup, llm |-> llm, norm |-> norm,
     other |-> other, settings |-> settings, auto |-> auto]

Install(w) ==
    \E v \in {w} :
        /\ config' = v.config
        /\ storage' = v.storage
        /\ cache' = v.cache
        /\ now' = v.now
        /\ pc' = v.pc
        /\ msg' = v.msg
        /\ local' = v.local
        /\ sy' = v.sy
        /\ api' = v.api
        /\ stats' = v.stats
        /\ response' = v.response
        /\ trace' = v.trace
        /\ cachedFor' = v.cachedFor
        /\ popup' = v.popup
        /\ llm' = v.llm
        /\ norm' = v.norm
        /\ other' = v.other
        /\ settings' = v.settings
        /\ auto' = v.auto

(***************************************************************************)
(* Handler steps, as functions from the state before to the state after    *)
(***************************************************************************)
MsgAutoDetected == "AMAZON_PRODUCT_DETECTED"

\* chrome.tabs.sendMessage(tabId, { type, ... })
tabsSendMessage(w, type) == [w EXCEPT !.auto.sent = Append(@, type)]

\* the AMAZON_PRODUCT_DETECTED handler after `await searchYouTubeForProduct`:
\* it awaits chrome.storage.local.set of { results, fetchedAt }
autoSearchReturns(w, results) ==
    [w EXCEPT !.pc = "autoPut", !.auto.results = results]

\* its catch block
autoSearchThrows(w) ==
    [tabsSendMessage(w, "YOUTUBE_SEARCH_ERROR") EXCEPT !.pc = "done"]

\* searchYouTube / searchYouTubeForProduct return to the message handler
\* that called them: sendResponse({success: true, data}), or the rest of the
\* AMAZON_PRODUCT_DETECTED handler
respondOk(w, data) ==
    IF w.msg.action = MsgAutoDetected THEN autoSearchReturns(w, data)
    ELSE [w EXCEPT !.pc = "done",
                   !.response = [sent |-> TRUE, success |-> TRUE, data |-> data,
                                 error |-> ""]]

\* they throw: sendResponse({success: false, error}), or the catch block of
\* the AMAZON_PRODUCT_DETECTED handler
respondError(w, message) ==
    IF w.msg.action = MsgAutoDetected THEN autoSearchThrows(w)
    ELSE [w EXCEPT !.pc = "done",
                   !.response = [sent |-> TRUE, success |-> FALSE, data |-> <<>>,
                                 error |-> message]]

\* getApiKey: the key in memory, else the stored key (which it then keeps in
\* memory), else it throws
getApiKey(w) ==
    IF w.config.apiKey # NoKey
    THEN [ok |-> TRUE, key |-> w.config.apiKey, w |-> w]
    ELSE IF w.storage.youtubeApiKey # NoKey
    THEN [ok |-> TRUE, key |-> w.storage.youtubeApiKey,
          w |-> [w EXCEPT !.config.apiKey = w.storage.youtubeApiKey]]
    ELSE [ok |-> FALSE, key |-> NoKey, w |-> w]

Str_cache_prefix ==
    <<"y","o","u","t","u","b","e","_","s","e","a","r","c","h","_">>

\* a key that keeps the letter case
getCacheKeyCaseSensitive(query) == Str_cache_prefix \o trim(query)

\* `youtube_search_${query.toLowerCase().trim()}`
getCacheKey(query) == Str_cache_prefix \o trim(toLowerCase(query))

\* cached.slice(0, limit)
slice0(results, limit) ==
    SubSeq(results, 1, IF Len(results) < limit THEN Len(results) ELSE limit)

\* setCachedResults: chrome.storage.local.set stores the entry in one step
setCachedResults(w, query, results) ==
    LET cacheKey == getCacheKey(query)
        entry == [results |-> results, fetchedAt |-> w.now]
    IN  [w EXCEPT !.cache = [k \in DOMAIN w.cache \cup {cacheKey} |->
                                IF k = cacheKey THEN entry ELSE w.cache[k]],
                  !.cachedFor = [k \in DOMAIN w.cachedFor \cup {cacheKey} |->
                                IF k = cacheKey THEN query ELSE w.cachedFor[k]],
                  !.trace.put = <<entry>>,
                  !.trace.putLast = TRUE,
                  !.other.trace.putLast = FALSE]

\* searchYouTube is entered: with the cache read, or straight with the API
\* call when bypassCache is set
\* a searchYouTube that never reads the cache
searchYouTubeNoRead(w, query, bypassCache) ==
    [w EXCEPT !.sy = [query |-> query, bypassCache |-> bypassCache],
              !.pc = "apiStart"]

searchYouTube(w, query, bypassCache) ==
    [w EXCEPT !.sy = [query |-> query, bypassCache |-> bypassCache],
              !.pc = IF bypassCache THEN "apiStart" ELSE "cacheGet"]

\* the for loop of searchYouTubeForProduct goes on after the searchYouTube
\* call for queries[qi] returned `results` or threw
\* a loop that never returns from inside
loopNeverReturns(results) == FALSE

\* `if (results.length > 0) return results`
loopReturns(results) == Len(results) > 0

forLoopNext(w, ok, results) ==
    LET w1 == [w EXCEPT !.trace.searched =
                   Append(@, [query |-> w.sy.query, ok |-> ok, results |-> results])]
    IN  IF ok /\ loopReturns(results)
        THEN respondOk(w1, results)
        ELSE IF w1.local.qi < Len(w1.local.queries)
        THEN searchYouTube([w1 EXCEPT !.local.qi = @ + 1],
                           w1.local.queries[w1.local.qi + 1], FALSE)
        ELSE respondOk(w1, <<>>)

\* searchYouTube returns to its caller: the message handler, or the for loop
searchYouTubeReturns(w, results) ==
    IF w.msg.action = "searchYouTube" THEN respondOk(w, results)
    ELSE forLoopNext(w, TRUE, results)

searchYouTubeThrows(w, error) ==
    IF w.msg.action = "searchYouTube" THEN respondError(w, error.message)
    ELSE forLoopNext(w, FALSE, <<>>)

\* a searchYouTube that writes every result through, empty or not
searchYouTubeAPIReturnsAlwaysWrites(w, results) ==
    searchYouTubeReturns(setCachedResults([w EXCEPT !.trace.sEnd = "returned"],
                                          w.sy.query, results), results)

\* searchYouTubeAPI returned: searchYouTube writes a non-empty result through
searchYouTubeAPIReturns(w, results) ==
    LET w1 == [w EXCEPT !.trace.sEnd = "returned"]
    IN  IF Len(results) > 0
        THEN searchYouTubeReturns(setCachedResults(w1, w1.sy.query, results), results)
        ELSE searchYouTubeReturns(w1, results)

searchYouTubeAPIThrows(w, error) ==
    searchYouTubeThrows([w EXCEPT !.trace.sEnd = "threw", !.trace.sError = error], error)

(***************************************************************************)
(* The retry loop shared by searchYouTubeAPI and fetchVideoStatistics      *)
(***************************************************************************)
\* response.ok
responseOk(status) == status >= 200 /\ status <= 299

\* response.status === 429 || response.status === 403
isRetryableStatus(status) == status = 429 \/ status = 403

\* what the try block does with the answer of one fetch: response.json()
\* is awaited before the status is looked at
attemptOutcome(r) ==
    IF r.kind = "network"
    THEN [do |-> "throw", error |-> Err("TypeError", MsgFailedToFetch, FALSE)]
    ELSE IF r.body = "malformed"
    THEN [do |-> "throw", error |-> Err("SyntaxError", MsgJsonSyntax, r.rl)]
    ELSE IF ~responseOk(r.status)
    THEN IF isRetryableStatus(r.status)
         THEN [do |-> "backoff", error |-> NoError]
         ELSE [do |-> "throw", error |-> Err("Error", MsgApiError, r.rl)]
    ELSE [do |-> "ok", error |-> NoError]

\* the condition of the catch block:
\* retries > 0 && error.message.includes('rate limit')
catchRetries(error, retries) == retries > 0 /\ error.rl

\* a backoff that triples
nextBackoffTriple(backoffMs) == backoffMs * 3

\* backoffMs *= 2
nextBackoff(backoffMs) == backoffMs * 2

\* a loop that goes round once more
loopContinuesAtZero(retries) == retries >= 0

\* while (retries > 0)
loopContinues(retries) == retries > 0

\* how the answer of one fetch is classed by its status and body alone:
\* rate-limited (429 or 403 with a JSON body), ok, or a failure of another kind
AnswerClass(r) ==
    IF r.kind = "http" /\ r.body = "json" /\ r.status \in {429, 403} THEN "rateLimited"
    ELSE IF r.kind = "http" /\ r.body = "json" /\ r.status = 200 THEN "ok"
    ELSE "failure"

Answer(r) == [class |-> AnswerClass(r), rl |-> r.rl]

(***************************************************************************)
(* searchYouTubeAPI and fetchVideoStatistics                               *)
(***************************************************************************)
\* await delay(backoffMs); backoffMs *= 2; retries--; continue;
\* and, when the loop ends, throw new Error('Failed to search YouTube after retries')
searchBackoff(w) ==
    LET w1 == [w EXCEPT !.trace.sSleeps = Append(@, w.api.backoffMs),
                        !.api.backoffMs = nextBackoff(@),
                        !.api.retries = @ - 1]
    IN  IF loopContinues(w1.api.retries)
        THEN [w1 EXCEPT !.pc = "searchFetch", !.trace.requested = TRUE]
        ELSE searchYouTubeAPIThrows(w1, Err("Error", MsgSearchRetries, FALSE))

\* the catch block of searchYouTubeAPI
searchCatch(w, error) ==
    IF catchRetries(error, w.api.retries) THEN searchBackoff(w)
    ELSE searchYouTubeAPIThrows(w, error)

\* searchYouTubeAPI starts: getApiKey (outside the try), then the first fetch
searchYouTubeAPI(w) ==
    LET k == getApiKey(w)
        w1 == [k.w EXCEPT !.trace.sAttempts = <<>>, !.trace.sSleeps = <<>>,
                          !.trace.sEnd = "running", !.trace.sError = NoError,
                          !.trace.vAttempts = <<>>, !.trace.vSleeps = <<>>,
                          !.trace.vEnd = "none", !.trace.vError = NoError]
    IN  IF ~k.ok
        THEN searchYouTubeAPIThrows(w1, Err("Error", MsgKeyNotConfigured, FALSE))
        ELSE [w1 EXCEPT !.api = [retries |-> RETRIES, backoffMs |-> BACKOFF_MS, items |-> <<>>],
                        !.pc = "searchFetch",
                        !.trace.requested = TRUE,
                        !.trace.keys = @ \cup {k.key}]

\* fetchVideoStatistics starts, called inside the try block of searchYouTubeAPI
fetchVideoStatistics(w) ==
    LET k == getApiKey(w)
        w1 == [k.w EXCEPT !.trace.vAttempts = <<>>, !.trace.vSleeps = <<>>,
                          !.trace.vEnd = "running", !.trace.vError = NoError]
    IN  IF ~k.ok
        THEN searchCatch([w1 EXCEPT !.trace.vEnd = "threw",
                                    !.trace.vError = Err("Error", MsgKeyNotConfigured, FALSE)],
                         Err("Error", MsgKeyNotConfigured, FALSE))
        ELSE [w1 EXCEPT !.stats = [retries |-> RETRIES, backoffMs |-> BACKOFF_MS],
                        !.pc = "statsFetch",
                        !.trace.requested = TRUE,
                        !.trace.keys = @ \cup {k.key}]

\* data.items.map(item => item.id.videoId).filter(Boolean)
videoIdsOf(items) ==
    LET ids == [i \in 1..Len(items) |-> items[i].videoId]
    IN  SelectSeq(ids, LAMBDA id : id # "")

\* statsMap.get(videoId) || { viewCount: 0 }
statsFor(videoId, statItems) ==
    IF \E i \in 1..Len(statItems) : statItems[i].id = videoId
    THEN LET i == CHOOSE j \in 1..Len(statItems) :
                      /\ statItems[j].id = videoId
                      /\ \A k \in (j + 1)..Len(statItems) : statItems[k].id # videoId
             st == statItems[i]
         IN  [viewCount |-> IF st.viewCount = None THEN parseInt(<<"0">>)
                            ELSE parseInt(st.viewCount[1]),
              likeCount |-> IF st.likeCount = None THEN None
                            ELSE Some(parseInt(st.likeCount[1]))]
    ELSE [viewCount |-> 0, likeCount |-> None]

Str_Unknown_Channel == "Unknown Channel"

\* data.items.map(...).filter(result => result.videoId)
combineResults(items, statItems) ==
    LET all == [i \in 1..Len(items) |->
                  VideoResult(items[i].videoId,
                              IF items[i].channelTitle = "" THEN Str_Unknown_Channel
                              ELSE items[i].channelTitle,
                              statsFor(items[i].videoId, statItems).viewCount,
                              statsFor(items[i].videoId, statItems).likeCount)]
    IN  SelectSeq(all, LAMBDA result : result.videoId # "")

\* one answer of the search endpoint arrives
searchAnswer(w, r) ==
    LET o == attemptOutcome(r)
        w1 == [w EXCEPT !.trace.sAttempts = Append(@, Answer(r))]
    IN  IF o.do = "backoff" THEN searchBackoff(w1)
        ELSE IF o.do = "throw" THEN searchCatch(w1, o.error)
        ELSE IF Len(r.items) = 0 THEN searchYouTubeAPIReturns(w1, <<>>)
        ELSE IF Len(videoIdsOf(r.items)) = 0 THEN searchYouTubeAPIReturns(w1, <<>>)
        ELSE fetchVideoStatistics([w1 EXCEPT !.api.items = r.items])

\* await delay(backoffMs); backoffMs *= 2; retries--; continue;
\* and, when the loop ends,
\* throw new Error('Failed to fetch video statistics after retries')
statsBackoff(w) ==
    LET w1 == [w EXCEPT !.trace.vSleeps = Append(@, w.stats.backoffMs),
                        !.stats.backoffMs = nextBackoff(@),
                        !.stats.retries = @ - 1]
    IN  IF loopContinues(w1.stats.retries)
        THEN [w1 EXCEPT !.pc = "statsFetch", !.trace.requested = TRUE]
        ELSE searchCatch([w1 EXCEPT !.trace.vEnd = "threw",
                                    !.trace.vError = Err("Error", MsgStatsRetries, FALSE)],
                         Err("Error", MsgStatsRetries, FALSE))

\* the catch block of fetchVideoStatistics
statsCatch(w, error) ==
    IF catchRetries(error, w.stats.retries) THEN statsBackoff(w)
    ELSE searchCatch([w EXCEPT !.trace.vEnd = "threw", !.trace.vError = error], error)

\* one answer of the statistics endpoint arrives
statsAnswer(w, r) ==
    LET o == attemptOutcome(r)
        w1 == [w EXCEPT !.trace.vAttempts = Append(@, Answer(r))]
    IN  IF o.do = "backoff" THEN statsBackoff(w1)
        ELSE IF o.do = "throw" THEN statsCatch(w1, o.error)
        ELSE searchYouTubeAPIReturns([w1 EXCEPT !.trace.vEnd = "returned"],
                                     combineResults(w1.api.items, r.items))

(***************************************************************************)
(* searchYouTubeForProduct                                                 *)
(***************************************************************************)
\* VERCEL_API_URL && !VERCEL_API_URL.includes('your-project-name')
proxyConfigured == TRUE

\* JavaScript's `x || ...` takes x unless it is missing or falsy
truthy(x, falsy) == x # None /\ x # Some(falsy)

\* a converter that fills a missing viewCount with 1
mapLegacyVideoDefaultOne(v) ==
    VideoResult(v.videoId,
                IF truthy(v.channelName, "") THEN v.channelName[1]
                ELSE IF v.channelTitle # None THEN v.channelTitle[1] ELSE None,
                IF truthy(v.viewCount, 0) THEN v.viewCount[1] ELSE 1,
                v.likeCount)

\* the object built for each entry of data.videos
mapLegacyVideo(v) ==
    VideoResult(v.videoId,
                IF truthy(v.channelName, "") THEN v.channelName[1]
                ELSE IF v.channelTitle # None THEN v.channelTitle[1] ELSE None,
                IF truthy(v.viewCount, 0) THEN v.viewCount[1] ELSE 0,
                v.likeCount)

\* the inner try block around the proxy fetch: it returns results, or throws
proxyTry(r) ==
    IF r.kind = "abort"
    THEN [returns |-> FALSE, data |-> <<>>,
          error |-> Err("AbortError", "The user aborted a request.", FALSE)]
    ELSE IF r.kind = "network"
    THEN [returns |-> FALSE, data |-> <<>>,
          error |-> Err("TypeError", MsgFailedToFetch, FALSE)]
    ELSE IF r.kind = "malformed"
    THEN [returns |-> FALSE, data |-> <<>>,
          error |-> Err("SyntaxError", MsgJsonSyntax, FALSE)]
    ELSE IF r.kind = "nonok"
    THEN [returns |-> FALSE, data |-> <<>>,
          error |-> IF r.quota THEN Err("Error", "QUOTA_EXCEEDED", FALSE)
                    ELSE Err("Error", "Backend API error: <status> - <text>", FALSE)]
    ELSE IF r.success /\ r.results # None
    THEN [returns |-> TRUE, data |-> r.results[1], error |-> NoError]
    ELSE IF r.videos # None
    THEN [returns |-> TRUE, error |-> NoError,
          data |-> [i \in 1..Len(r.videos[1]) |-> mapLegacyVideo(r.videos[1][i])]]
    ELSE [returns |-> FALSE, data |-> <<>>,
          error |-> IF r.quota THEN Err("Error", "QUOTA_EXCEEDED", FALSE)
                    ELSE Err("Error", "<data.error or Backend returned unsuccessful response>", FALSE)]

\* what the proxy answered, told from the answer alone: an OK answer with a
\* results array and success = true, an OK answer with a legacy videos array,
\* or a failure (quota signal, timeout, anything else)
ProxyAnswerKind(r) ==
    IF r.kind = "ok" /\ r.success /\ r.results # None THEN "results"
    ELSE IF r.kind = "ok" /\ r.videos # None THEN "videos"
    ELSE IF r.kind = "abort" THEN "abort"
    ELSE IF r.kind \in {"ok", "nonok"} /\ r.quota THEN "quota"
    ELSE "failed"

\* the array the proxy sent, when it sent one in a recognised place
ProxyAnswerBody(r) ==
    IF ProxyAnswerKind(r) = "results" THEN r.results[1]
    ELSE IF ProxyAnswerKind(r) = "videos" THEN r.videos[1]
    ELSE <<>>

\* a catch block that passes a timeout on to the caller
proxyCatchRethrowsAbort(error) == error.name = "AbortError"

\* the catch block around the proxy fetch: TRUE when it throws the error on
proxyCatchThrows(error) ==
    IF error.message = "QUOTA_EXCEEDED" THEN FALSE
    ELSE IF error.name = "AbortError" THEN FALSE
    ELSE IF error.name = "TypeError" /\ error.message = MsgFailedToFetch THEN FALSE
    ELSE FALSE

Queries3(searchTitle) ==
    << searchTitle \o Str_review, searchTitle \o Str_unboxing, searchTitle \o Str_hands_on >>

\* from `if (queries.length === 0)` to the first searchYouTube of the loop
withQueries(w, queries) ==
    IF Len(queries) = 0 THEN respondOk(w, <<>>)
    ELSE LET k == IF w.local.useOwnKey
                  THEN [ok |-> TRUE, key |-> w.local.storedKey, w |-> w]
                  ELSE getApiKey(w)
         IN  IF k.key = NoKey
             THEN respondError(k.w, IF w.local.useOwnKey THEN MsgOwnKeyMissing
                                    ELSE MsgUnavailable)
             ELSE searchYouTube([k.w EXCEPT !.local.queries = queries, !.local.qi = 1,
                                            !.local.apiKey = k.key],
                                queries[1], FALSE)

\* the local search: the AI rewrite when asked for, else the query variants
localSearch(w) ==
    IF w.msg.useAI THEN [w EXCEPT !.pc = "ai"]
    ELSE withQueries(w, generateSearchQueries(w.msg.title))

\* searchYouTubeForProduct is entered: storage is read, then the proxy is
\* tried unless the user chose the own key
searchYouTubeForProduct(w) ==
    LET useOwnKey == w.storage.useOwnYouTubeKey /\ w.storage.youtubeApiKey # NoKey
        w1 == [w EXCEPT !.local = [useOwnKey |-> useOwnKey,
                                   storedKey |-> w.storage.youtubeApiKey,
                                   queries |-> <<>>, qi |-> 0, apiKey |-> NoKey]]
    IN  IF ~useOwnKey /\ proxyConfigured THEN [w1 EXCEPT !.pc = "proxy"]
        ELSE localSearch(w1)

\* the answer of the proxy arrives (or its fetch fails)
proxyAnswer(w, r) ==
    LET t == proxyTry(r)
        w1 == [w EXCEPT !.trace.proxy = ProxyAnswerKind(r),
                        !.trace.proxyBody = ProxyAnswerBody(r)]
    IN  IF t.returns THEN respondOk(w1, t.data)
        ELSE IF proxyCatchThrows(t.error) THEN respondError(w1, t.error.message)
        ELSE localSearch(w1)

\* optimizeTitleForYouTube settles: the rewritten title, its own fallback to
\* normalizeAmazonTitleToSearch, or an exception that leaves searchTitle = title
aiAnswer(w, how) ==
    LET searchTitle == IF how = "rewritten" THEN Str_ai_title
                       ELSE IF how = "fallback" THEN normalizeAmazonTitleToSearch(w.msg.title)
                       ELSE w.msg.title
    IN  withQueries([w EXCEPT !.trace.ai = how], Queries3(searchTitle))

\* a test that still takes an entry of exactly the TTL's age
ageIsFreshInclusive(age, ttl) == age <= ttl

\* `if (age < ttl)`
ageIsFresh(age, ttl) == age < ttl

\* getCachedResults settles its storage read
cacheGet(w) ==
    LET cacheKey == getCacheKey(w.sy.query)
    IN  IF cacheKey \in DOMAIN w.cache
        THEN IF ageIsFresh(w.now - w.cache[cacheKey].fetchedAt, CACHE_TTL)
             THEN searchYouTubeReturns([w EXCEPT !.trace.cacheHit = TRUE],
                                       slice0(w.cache[cacheKey].results, MAX_RESULTS))
             ELSE [w EXCEPT !.pc = "cacheRemove"]
        ELSE searchYouTubeAPI(w)

\* chrome.storage.local.remove(cacheKey) of the expired entry, then the API call
cacheRemove(w) ==
    LET cacheKey == getCacheKey(w.sy.query)
    IN  searchYouTubeAPI([w EXCEPT
            !.cache = [k \in DOMAIN w.cache \ {cacheKey} |-> w.cache[k]],
            !.cachedFor = [k \in DOMAIN w.cachedFor \ {cacheKey} |-> w.cachedFor[k]]])

(***************************************************************************)
(* Initial state                                                           *)
(***************************************************************************)
\* chrome.storage.local outlives the service worker: it may hold an entry
\* that an earlier run wrote with setCachedResults
StoredQuery   == <<"e","c","h","o"," ","d","o","t">> \o Str_review
StoredQueries == {StoredQuery, <<"e","c","h","o"," ","d","o","t">>}
StoredResults == <<VideoResult("v0", "Chan", 3, None)>>

Init ==
    /\ config = [apiKey |-> NoKey]
    /\ storage \in { [youtubeApiKey |-> NoKey, useOwnYouTubeKey |-> FALSE],
                     [youtubeApiKey |-> "k1", useOwnYouTubeKey |-> FALSE],
                     [youtubeApiKey |-> "k1", useOwnYouTubeKey |-> TRUE] }
    /\ now = CACHE_TTL
    /\ \E hasEntry \in BOOLEAN, fetchedAt \in {0, CACHE_TTL}, q \in StoredQueries :
          /\ cache = IF hasEntry
                     THEN (getCacheKey(q) :> [results |-> StoredResults,
                                              fetchedAt |-> fetchedAt])
                     ELSE << >>
          /\ cachedFor = IF hasEntry THEN (getCacheKey(q) :> q) ELSE << >>
    /\ pc = "idle"
    /\ msg = NoMsg
    /\ local = NoLocal
    /\ sy = NoSy
    /\ api = NoApi
    /\ stats = NoStats
    /\ response = NoResponse
    /\ trace = NoTrace
    /\ calls = 0
    /\ ticks = 0
    /\ popup = NoPopup
    /\ llm = NoLlm
    /\ norm = NoNorm
    /\ other = NoOther
    /\ settings = NoSettings
    /\ auto = NoAuto

(***************************************************************************)
(* Actions                                                                 *)
(***************************************************************************)
Fresh == [World EXCEPT !.local = NoLocal, !.sy = NoSy, !.api = NoApi,
                       !.stats = NoStats, !.response = NoResponse,
                       !.trace = NoTrace]

Idle == pc \in {"idle", "done"}

\* onMessage: { action: 'searchYouTubeForProduct', title, useAI }
RecvSearchYouTubeForProduct ==
    /\ Idle
    /\ calls < MaxProductCalls
    /\ \E m \in ProductMessages :
          LET w == [Fresh EXCEPT !.msg = [NoMsg EXCEPT !.action = "searchYouTubeForProduct",
                                                       !.title = m.title, !.useAI = m.useAI]]
          IN  Install(IF m.title = <<>> THEN respondError(w, MsgTitleRequired)
                      ELSE searchYouTubeForProduct(w))
    /\ calls' = calls + 1
    /\ UNCHANGED ticks

\* onMessage: { action: 'searchYouTubeForProduct', title, bypassCache: true },
\* as the popup sends it for a forced refresh; the handler passes title,
\* subtitle and useAI on and nothing else
RecvSearchYouTubeForProductBypass ==
    /\ Idle
    /\ calls < MaxProductCalls
    /\ \E title \in {Str_New, Str_Echo_Dot} :
          LET w == [Fresh EXCEPT !.msg = [NoMsg EXCEPT !.action = "searchYouTubeForProduct",
                                                       !.title = title,
                                                       !.bypassCache = TRUE]]
          IN  Install(searchYouTubeForProduct(w))
    /\ calls' = calls + 1
    /\ UNCHANGED ticks

\* onMessage: { action: 'searchYouTube', query, bypassCache }
RecvSearchYouTube ==
    /\ Idle
    /\ calls < MaxCalls
    /\ \E query \in RawQueries, bypassCache \in BOOLEAN :
          LET w == [Fresh EXCEPT !.msg = [NoMsg EXCEPT !.action = "searchYouTube",
                                                       !.query = query,
                                                       !.bypassCache = bypassCache]]
          IN  Install(searchYouTube(w, query, bypassCache))
    /\ calls' = calls + 1
    /\ UNCHANGED ticks

\* onMessage: { action: 'setApiKey', apiKey }, handled at any time
SetApiKeyMessage ==
    /\ \E apiKey \in Keys \cup {NoKey} :
          IF apiKey = NoKey THEN UNCHANGED <<config, storage>>
          ELSE /\ config' = [config EXCEPT !.apiKey = apiKey]
               /\ storage' = [storage EXCEPT !.youtubeApiKey = apiKey]
    /\ calls' = calls + 1
    /\ UNCHANGED <<cache, now, pc, msg, local, sy, api, stats, response, trace,
                   cachedFor, ticks, popup, llm, norm, other,
                   settings, auto>>

RecvSetApiKey == calls < MaxProductCalls /\ SetApiKeyMessage

\* a setApiKey message that arrives while another handler waits for I/O
RecvSetApiKeyMidCall == ~Idle /\ calls <= MaxProductCalls /\ SetApiKeyMessage

ProxyAnswer ==
    /\ pc = "proxy"
    /\ \E r \in ProxyResponses : Install(proxyAnswer(World, r))
    /\ UNCHANGED <<calls, ticks>>

AiAnswer ==
    /\ pc = "ai"
    /\ \E how \in {"rewritten", "fallback", "throws"} : Install(aiAnswer(World, how))
    /\ UNCHANGED <<calls, ticks>>

CacheGet ==
    /\ pc = "cacheGet"
    /\ Install(cacheGet(World))
    /\ UNCHANGED <<calls, ticks>>

CacheRemove ==
    /\ pc = "cacheRemove"
    /\ Install(cacheRemove(World))
    /\ UNCHANGED <<calls, ticks>>

ApiStart ==
    /\ pc = "apiStart"
    /\ Install(searchYouTubeAPI(World))
    /\ UNCHANGED <<calls, ticks>>

SearchAnswer ==
    /\ pc = "searchFetch"
    /\ \E r \in ProviderResponses(SearchItemChoices) : Install(searchAnswer(World, r))
    /\ UNCHANGED <<calls, ticks>>

StatsAnswer ==
    /\ pc = "statsFetch"
    /\ \E r \in ProviderResponses(StatsItemChoices) : Install(statsAnswer(World, r))
    /\ UNCHANGED <<calls, ticks>>

\* time passes
Tick ==
    /\ ticks < MaxTicks
    /\ now' = now + TickMs
    /\ ticks' = ticks + 1
    /\ UNCHANGED <<config, storage, cache, pc, msg, local, sy, api, stats,
                   response, trace, cachedFor, calls, popup, llm, norm, other,
                   settings, auto>>

\* the orchestrator is explored with the basic answers of the provider
SearchAnswerBasic ==
    /\ pc = "searchFetch"
    /\ \E r \in BasicProviderResponses(SearchItemChoices) : Install(searchAnswer(World, r))
    /\ UNCHANGED <<calls, ticks>>

StatsAnswerBasic ==
    /\ pc = "statsFetch"
    /\ \E r \in BasicProviderResponses(StatsItemChoices) : Install(statsAnswer(World, r))
    /\ UNCHANGED <<calls, ticks>>

\* the service worker handling product searches
Next ==
    \/ RecvSearchYouTubeForProduct
    \/ RecvSetApiKey
    \/ ProxyAnswer
    \/ AiAnswer
    \/ CacheGet
    \/ CacheRemove
    \/ SearchAnswerBasic
    \/ StatsAnswerBasic
    \/ Tick

Spec == Init /\ [][Next]_vars

\* the service worker handling searchYouTube messages
NextSearch ==
    \/ RecvSearchYouTube
    \/ CacheGet
    \/ CacheRemove
    \/ ApiStart
    \/ SearchAnswerBasic
    \/ StatsAnswerBasic
    \/ Tick

SpecSearch == Init /\ [][NextSearch]_vars

\* one searchYouTube message at a time, with every answer of the provider
RecvSearchYouTubeOnce ==
    /\ calls < MaxRetryCalls
    /\ RecvSearchYouTube

NextRetry ==
    \/ RecvSearchYouTubeOnce
    \/ CacheGet
    \/ CacheRemove
    \/ ApiStart
    \/ SearchAnswer
    \/ StatsAnswer

SpecRetry == Init /\ [][NextRetry]_vars

\* product searches that ask to bypass the cache
NextBypass ==
    \/ RecvSearchYouTubeForProductBypass
    \/ ProxyAnswer
    \/ CacheGet
    \/ CacheRemove
    \/ SearchAnswerBasic
    \/ StatsAnswerBasic

SpecBypass == Init /\ [][NextBypass]_vars

SearchAnswerPlain ==
    /\ pc = "searchFetch"
    /\ \E r \in PlainProviderResponses(SearchItemChoices) : Install(searchAnswer(World, r))
    /\ UNCHANGED <<calls, ticks>>

StatsAnswerPlain ==
    /\ pc = "statsFetch"
    /\ \E r \in PlainProviderResponses(StatsItemChoices) : Install(statsAnswer(World, r))
    /\ UNCHANGED <<calls, ticks>>

\* setTimeout(() => controller.abort(), 25000): the timer of the proxy
\* fetch fires and the fetch rejects with an AbortError
ProxyTimeout ==
    /\ pc = "proxy"
    /\ Install(proxyAnswer(World, [kind |-> "abort", status |-> 0, quota |-> FALSE,
                                   success |-> FALSE, results |-> None, videos |-> None]))
    /\ UNCHANGED <<calls, ticks>>

\* product searches whose remote endpoints may never answer: an answer may
\* stay away for ever, a timer that was set does fire, and the reads and
\* removals of chrome.storage.local complete
NextTimeouts ==
    \/ RecvSearchYouTubeForProduct
    \/ ProxyAnswer
    \/ ProxyTimeout
    \/ AiAnswer
    \/ CacheGet
    \/ CacheRemove
    \/ SearchAnswerPlain
    \/ StatsAnswerPlain

\* storage operations complete (weak fairness of the two storage steps), and
\* the timer of the proxy fetch ends the wait for the proxy: ProxyTimeout is
\* enabled exactly while pc = "proxy" and every step from there leaves that
\* stage, so its weak fairness is the recurrence of pc # "proxy"
SpecTimeouts ==
    /\ Init /\ [][NextTimeouts]_vars
    /\ WF_vars(CacheGet)
    /\ WF_vars(CacheRemove)
    /\ []<>(pc # "proxy")

(***************************************************************************)
(* The popup: handleSearch                                                 *)
(***************************************************************************)
MsgNoTitle == "Could not find product title on this page."
MsgPopupTimeout == "Request timed out. Please reload the extension and try again."
MsgSearchFailed == "Failed to search YouTube"

\* what the backend can answer to the popup's own request: a body with
\* success and results, another body with status 200, a status that is not
\* OK, a network failure, the 15 s abort
PopupBackendAnswers == {"results", "otherBody", "notOk", "network", "abort"}

\* handleSearch, up to its first request: the product title read from the
\* page, then the direct request to the backend
PopupHandleSearch ==
    /\ popup.pc = "idle"
    /\ \E title \in {<<>>, Str_New, Str_Echo_Dot} :
          popup' = IF title = <<>>
                   THEN [popup EXCEPT !.pc = "done", !.error = MsgNoTitle]
                   ELSE IF proxyConfigured
                   THEN [popup EXCEPT !.pc = "backend", !.title = title,
                                      !.backendRequests = @ + 1,
                                      !.timerAt = now]
                   ELSE [popup EXCEPT !.pc = "send", !.title = title]
    /\ UNCHANGED <<config, storage, cache, now, pc, msg, local, sy, api, stats,
                   response, trace, cachedFor, calls, ticks, llm, norm, other,
                   settings, auto>>

\* the backend answers the popup: results are shown, anything else makes the
\* popup turn to the service worker
PopupBackendAnswer ==
    /\ popup.pc = "backend"
    /\ \E a \in PopupBackendAnswers :
          popup' = IF a = "results"
                   THEN [popup EXCEPT !.pc = "done", !.backend = a,
                                      !.results = StoredResults]
                   ELSE [popup EXCEPT !.pc = "send", !.backend = a]
    /\ UNCHANGED <<config, storage, cache, now, pc, msg, local, sy, api, stats,
                   response, trace, cachedFor, calls, ticks, llm, norm, other,
                   settings, auto>>

\* chrome.runtime.sendMessage({action: 'searchYouTubeForProduct', ...}): the
\* service worker starts handling the message
PopupSendMessage ==
    /\ popup.pc = "send"
    /\ Idle
    /\ \E useAI \in BOOLEAN, bypassCache \in BOOLEAN :
          LET w == [Fresh EXCEPT !.msg = [NoMsg EXCEPT !.action = "searchYouTubeForProduct",
                                                       !.title = popup.title,
                                                       !.useAI = useAI,
                                                       !.bypassCache = bypassCache],
                                 !.popup.pc = "worker",
                                 !.popup.timerAt = now]
          IN  Install(searchYouTubeForProduct(w))
    /\ UNCHANGED <<calls, ticks>>

\* the service worker's response wins the Promise.race
PopupReceive ==
    /\ popup.pc = "worker"
    /\ pc = "done"
    /\ response.sent
    /\ popup' = IF response.success
                THEN [popup EXCEPT !.pc = "done", !.results = response.data]
                ELSE [popup EXCEPT !.pc = "done",
                                   !.error = IF response.error # "" THEN response.error
                                             ELSE MsgSearchFailed]
    /\ UNCHANGED <<config, storage, cache, now, pc, msg, local, sy, api, stats,
                   response, trace, cachedFor, calls, ticks, llm, norm, other,
                   settings, auto>>

\* the 15 s timer wins the Promise.race
PopupTimeout ==
    /\ popup.pc = "worker"
    /\ popup' = [popup EXCEPT !.pc = "done", !.error = MsgPopupTimeout]
    /\ UNCHANGED <<config, storage, cache, now, pc, msg, local, sy, api, stats,
                   response, trace, cachedFor, calls, ticks, llm, norm, other,
                   settings, auto>>

\* a product search started from the popup
NextPopup ==
    \/ PopupHandleSearch
    \/ PopupBackendAnswer
    \/ PopupSendMessage
    \/ PopupReceive
    \/ PopupTimeout
    \/ ProxyAnswer
    \/ AiAnswer
    \/ CacheGet
    \/ CacheRemove
    \/ SearchAnswerPlain
    \/ StatsAnswerPlain

SpecPopup == Init /\ [][NextPopup]_vars

(***************************************************************************)
(* extractProductsWithLLM (src/shared/llmExtractProduct.ts)                *)
(***************************************************************************)
\* a value used as a condition
jsTruthy(v) ==
    \/ v.t = "string" /\ v.s # ""
    \/ v.t = "number" /\ v.n # 0
    \/ v.t \in {"object", "array"}

\* v >= k (in hundredths) for a number, null (which converts to 0) or
\* undefined (which converts to NaN)
jsAtLeast(v, k) ==
    \/ v.t = "number" /\ v.n >= k
    \/ v.t = "null" /\ 0 >= k

HalfConfidence == 50      \* the 0.5 of the filter

LlmNames == {JsNull, JsString(""), JsString("A"), JsString("B")}
LlmConfidences == {JsUndefined, JsNumber(49), JsNumber(50), JsNumber(90)}
LlmCandidates == [productName : LlmNames, confidence : LlmConfidences]

LlmArrays == UNION { [1..n -> LlmCandidates] : n \in 0..MaxCandidates }

\* result.products: missing, null, an object that is no array, an array
LlmProducts ==
    { [t |-> k, items |-> <<>>] : k \in {"undefined", "null", "object"} }
    \cup { [t |-> "array", items |-> a] : a \in LlmArrays }

LlmLegacyNames == {JsUndefined, JsNull, JsString(""), JsString("X")}
LlmLegacyConfidences == {JsUndefined, JsNumber(0), JsNumber(30), JsNumber(90), JsString("0.9")}

\* the bodies of a 200 answer: an array comes alone or beside the legacy
\* fields, everything else with every combination of the legacy fields
LlmBodies ==
    { [products |-> p, productName |-> nc[1], confidence |-> nc[2]] :
        p \in { q \in LlmProducts : q.t = "array" },
        nc \in { <<JsUndefined, JsUndefined>>, <<JsString("X"), JsNumber(90)>> } }
    \cup
    { [products |-> p, productName |-> name, confidence |-> c] :
        p \in { q \in LlmProducts : q.t # "array" },
        name \in LlmLegacyNames, c \in LlmLegacyConfidences }

\* what the extract-product request can end with: a network failure, the
\* abort after REQUEST_TIMEOUT, a status that is not OK, a body that is no
\* JSON, a JSON body
LlmAnswers ==
    { [kind |-> k, body |-> NoBody] : k \in {"network", "abort", "notOk", "badJson"} }
    \cup { [kind |-> "json", body |-> b] : b \in LlmBodies }

MsgNotConfigured == "Backend API URL not configured"
MsgInvalidStructure == "Invalid response structure from LLM - expected products array or productName"
MsgNoProducts == "No products found"

llmThrow(l, message) ==
    [l EXCEPT !.pc = "done", !.threw = TRUE, !.message = message]

\* products.filter(p => p.confidence >= 0.5 && p.productName)
validProducts(products) ==
    SelectSeq(products, LAMBDA p : jsAtLeast(p.confidence, HalfConfidence)
                                    /\ jsTruthy(p.productName))

\* extractProductsWithLLM from the answer of the fetch on
extractProductsAnswer(l, a) ==
    CASE a.kind = "network" -> llmThrow(l, "Failed to fetch")
      [] a.kind = "abort"   -> llmThrow(l, "AbortError")
      [] a.kind = "notOk"   -> llmThrow(l, "LLM API returned")
      [] a.kind = "badJson" -> llmThrow(l, "SyntaxError")
      [] OTHER ->
           LET result == a.body IN
           IF jsTruthy(result.products) /\ result.products.t = "array"
           THEN [l EXCEPT !.pc = "done",
                          !.products = validProducts(result.products.items)]
           ELSE IF jsTruthy(result.productName) /\ result.confidence.t = "number"
           THEN [l EXCEPT !.pc = "done",
                          !.products = validProducts(
                              <<[productName |-> result.productName,
                                 confidence |-> result.confidence]>>)]
           ELSE llmThrow(l, MsgInvalidStructure)

\* extractProductWithLLM around the finished call: the first product, or a
\* null product with the reason, and never an error
extractProductWrap(l) ==
    IF l.threw
    THEN [l EXCEPT !.threw = FALSE,
                   !.single = <<[productName |-> JsNull, confidence |-> JsNumber(0),
                                 rationale |-> l.message]>>]
    ELSE IF Len(l.products) > 0
    THEN [l EXCEPT !.single = <<[productName |-> l.products[1].productName,
                                 confidence |-> l.products[1].confidence,
                                 rationale |-> ""]>>]
    ELSE [l EXCEPT !.single = <<[productName |-> JsNull, confidence |-> JsNumber(0),
                                 rationale |-> MsgNoProducts]>>]

\* extractProductsWithLLM(context) or extractProductWithLLM(context), up to
\* the fetch
CallExtract ==
    /\ llm.pc = "idle"
    /\ \E fn \in {"extractProductsWithLLM", "extractProductWithLLM"} :
          llm' = IF proxyConfigured
                 THEN [llm EXCEPT !.pc = "fetch", !.fn = fn]
                 ELSE IF fn = "extractProductWithLLM"
                 THEN extractProductWrap(llmThrow([llm EXCEPT !.fn = fn], MsgNotConfigured))
                 ELSE llmThrow([llm EXCEPT !.fn = fn], MsgNotConfigured)
    /\ UNCHANGED <<config, storage, cache, now, pc, msg, local, sy, api, stats,
                   response, trace, cachedFor, calls, ticks, popup, norm, other,
                   settings, auto>>

\* the fetch settles and the call runs to its end
ExtractAnswer ==
    /\ llm.pc = "fetch"
    /\ \E a \in LlmAnswers :
          LET l == extractProductsAnswer([llm EXCEPT !.answer = a], a)
          IN  llm' = IF llm.fn = "extractProductWithLLM"
                     THEN extractProductWrap(l) ELSE l
    /\ UNCHANGED <<config, storage, cache, now, pc, msg, local, sy, api, stats,
                   response, trace, cachedFor, calls, ticks, popup, norm, other,
                   settings, auto>>

NextExtract ==
    \/ CallExtract
    \/ ExtractAnswer

SpecExtract == Init /\ [][NextExtract]_vars

\* product searches during which the settings page saves a key
NextKeys ==
    \/ RecvSearchYouTubeForProduct
    \/ RecvSetApiKeyMidCall
    \/ ProxyAnswer
    \/ AiAnswer
    \/ CacheGet
    \/ CacheRemove
    \/ SearchAnswerPlain
    \/ StatsAnswerPlain

SpecKeys == Init /\ [][NextKeys]_vars

(***************************************************************************)
(* Two searchYouTube calls at once                                         *)
(***************************************************************************)
\* the service worker runs one handler at a time and leaves it at an await:
\* the suspended handler and the running one change places
Switch(w) ==
    [w EXCEPT !.pc = w.other.pc, !.msg = w.other.msg, !.local = w.other.local,
              !.sy = w.other.sy, !.api = w.other.api, !.stats = w.other.stats,
              !.response = w.other.response, !.trace = w.other.trace,
              !.other = [pc |-> w.pc, msg |-> w.msg, local |-> w.local, sy |-> w.sy,
                         api |-> w.api, stats |-> w.stats, response |-> w.response,
                         trace |-> w.trace]]

\* onMessage: { action: 'searchYouTube', query, bypassCache }, arriving
\* while the handler of an earlier message waits for I/O
OtherRecvSearchYouTube ==
    /\ ~Idle
    /\ other.pc = "idle"
    /\ \E query \in RawQueries, bypassCache \in BOOLEAN :
          Install(Switch(searchYouTube(
              [Switch(World) EXCEPT !.msg = [NoMsg EXCEPT !.action = "searchYouTube",
                                                          !.query = query,
                                                          !.bypassCache = bypassCache]],
              query, bypassCache)))
    /\ UNCHANGED <<calls, ticks>>

OtherCacheGet ==
    /\ other.pc = "cacheGet"
    /\ Install(Switch(cacheGet(Switch(World))))
    /\ UNCHANGED <<calls, ticks>>

OtherCacheRemove ==
    /\ other.pc = "cacheRemove"
    /\ Install(Switch(cacheRemove(Switch(World))))
    /\ UNCHANGED <<calls, ticks>>

OtherApiStart ==
    /\ other.pc = "apiStart"
    /\ Install(Switch(searchYouTubeAPI(Switch(World))))
    /\ UNCHANGED <<calls, ticks>>

OtherSearchAnswer ==
    /\ other.pc = "searchFetch"
    /\ \E r \in PlainProviderResponses(SearchItemChoices) :
          Install(Switch(searchAnswer(Switch(World), r)))
    /\ UNCHANGED <<calls, ticks>>

OtherStatsAnswer ==
    /\ other.pc = "statsFetch"
    /\ \E r \in PlainProviderResponses(StatsItemChoices) :
          Install(Switch(statsAnswer(Switch(World), r)))
    /\ UNCHANGED <<calls, ticks>>

\* searchYouTube messages, of which a second one is handled while the
\* first one waits
NextRace ==
    \/ RecvSearchYouTubeOnce
    \/ CacheGet
    \/ CacheRemove
    \/ ApiStart
    \/ SearchAnswerPlain
    \/ StatsAnswerPlain
    \/ OtherRecvSearchYouTube
    \/ OtherCacheGet
    \/ OtherCacheRemove
    \/ OtherApiStart
    \/ OtherSearchAnswer
    \/ OtherStatsAnswer

SpecRace == Init /\ [][NextRace]_vars

(***************************************************************************)
(* The functions of config.ts, called on titles and subtitles              *)
(***************************************************************************)
\* src/unnamed/part_010 line 10
Title_EchoDot ==
    <<"E","c","h","o"," ","D","o","t"," ","(","5","t","h"," ","G","e","n",
      ","," ","2","0","2","2"," ","r","e","l","e","a","s","e",")"," ",
      "ENDASH"," ","S","m","a","r","t"," ","s","p","e","a","k","e","r"," ",
      "w","i","t","h"," ","A","l","e","x","a"," ","EMDASH"," ","C","h","a",
      "r","c","o","a","l">>
\* part_010 line 127
Title_iPhone ==
    <<"i","P","h","o","n","e"," ","1","5"," ","P","r","o"," ","M","a","x",
      " ","(","2","5","6","G","B",")"," ","-"," ","T","i","t","a","n","i",
      "u","m">>
\* part_010 line 24
Title_AirPods ==
    <<"A","p","p","l","e"," ","A","i","r","P","o","d","s"," ","P","r","o",
      " ","(","2","n","d"," ","G","e","n","e","r","a","t","i","o","n",")">>
\* part_010 line 25
Subtitle_AirPods ==
    <<"A","c","t","i","v","e"," ","N","o","i","s","e"," ","C","a","n","c",
      "e","l","l","a","t","i","o","n",","," ","M","a","g","S","a","f","e",
      " ","C","a","s","e">>
\* part_010 line 141
Title_EchoDotGen ==
    <<"E","c","h","o"," ","D","o","t"," ","(","5","t","h"," ","G","e","n",
      ")">>
\* part_010 line 161
Title_Logitech ==
    <<"L","o","g","i","t","e","c","h"," ","G","5","0","2"," ","H","E","R",
      "O">>
Title_Galaxy ==
    <<"G","a","l","a","x","y"," ","S","2","3">>
Title_Pens ==
    <<"P","a","c","k"," ","o","f"," ","3"," ","P","e","n","s">>
Title_Vendor ==
    <<"P","h","o","n","e"," ","b","y"," ","A","c","m","e"," ","(","2","5",
      "6","G","B",")">>
Title_Marker ==
    <<"_","_","P","R","E","S","E","R","V","E","_","0","_","_">>
Title_Blank ==
    <<" "," "," ">>
Title_Dash ==
    <<"-">>
Title_Speaker ==
    <<"P","o","r","t","a","b","l","e"," ","B","l","u","e","t","o","o","t",
      "h"," ","S","p","e","a","k","e","r"," ","W","a","t","e","r","p","r",
      "o","o","f"," ","W","i","r","e","l","e","s","s"," ","O","u","t","d",
      "o","o","r"," ","S","t","e","r","e","o"," ","B","a","s","s"," ","D",
      "u","a","l"," ","P","a","i","r","i","n","g"," ","R","e","c","h","a",
      "r","g","e","a","b","l","e"," ","B","a","t","t","e","r","y"," ","T",
      "r","a","v","e","l"," ","C","a","s","e"," ","C","a","r","a","b","i",
      "n","e","r"," ","H","i","k","i","n","g"," ","C","a","m","p","i","n",
      "g">>
\* a preserved parenthetical with two spaces inside
Title_Spaced ==
    <<" ","T","a","b","l","e","t"," "," ","(","6","4"," "," ","G","B",")"," ">>
Subtitle_Black ==
    <<"B","l","a","c","k">>
Subtitle_Model ==
    <<"6","4"," ","G","B"," ","m","o","d","e","l">>

\* 'A'.repeat(200) + ' Product Title' (part_010 line 120)
RepeatedAs == 200
Title_Repeated ==
    [i \in 1..RepeatedAs |-> "A"] \o
    <<" ","P","r","o","d","u","c","t"," ","T","i","t","l","e">>

SampleTitles ==
    {<<>>, Title_Blank, Title_Dash, Str_New, Title_EchoDot, Title_iPhone,
     Title_AirPods, Title_EchoDotGen, Title_Logitech, Title_Galaxy, Title_Pens,
     Title_Vendor, Title_Marker, Title_Speaker, Title_Repeated, Title_Spaced}

\* titles made of up to MaxTitleWords words
MaxTitleWords == 2
TitleWords ==
    {Str_New, <<"P","r","o">>, <<"2","0","2","2">>, <<"(","6","4"," ","G","B",")">>,
     <<"(","N","e","w",")">>, <<"b","y">>, <<"S","2","3">>}
WordTitles ==
    {join(ws) : ws \in UNION {[1..n -> TitleWords] : n \in 1..MaxTitleWords}}

Titles == SampleTitles \cup WordTitles
\* the subtitle parameter: left out, or a string
Subtitles == {NoString, Subtitle_Black, Subtitle_Model, Subtitle_AirPods}

\* normalizeText(text) is called and runs to its end
CallNormalizeText ==
    /\ norm.pc = "idle"
    /\ \E title \in Titles :
          norm' = IF normalizeTextThrows(title)
                  THEN [NoNorm EXCEPT !.pc = "done", !.fn = "normalizeText",
                                      !.title = title, !.threw = TRUE]
                  ELSE [NoNorm EXCEPT !.pc = "done", !.fn = "normalizeText",
                                      !.title = title, !.out = normalizeText(title)]
    /\ UNCHANGED <<config, storage, cache, now, pc, msg, local, sy, api, stats,
                   response, trace, cachedFor, calls, ticks, popup, llm, other,
                   settings, auto>>

\* normalizeAmazonTitleToSearch(title, subtitle) is called and runs to its end
CallNormalizeAmazonTitleToSearch ==
    /\ norm.pc = "idle"
    /\ \E title \in Titles, subtitle \in Subtitles :
          LET n == [NoNorm EXCEPT !.pc = "done", !.fn = "normalizeAmazonTitleToSearch",
                                  !.title = title, !.subtitle = subtitle]
          IN  norm' = IF normalizeThrows(title, subtitle)
                      THEN [n EXCEPT !.threw = TRUE]
                      ELSE [n EXCEPT !.out = normalizeTitleAndSubtitle(title, subtitle)]
    /\ UNCHANGED <<config, storage, cache, now, pc, msg, local, sy, api, stats,
                   response, trace, cachedFor, calls, ticks, popup, llm, other,
                   settings, auto>>

\* generateSearchQueries(title, subtitle) is called and runs to its end
CallGenerateSearchQueries ==
    /\ norm.pc = "idle"
    /\ \E title \in Titles, subtitle \in Subtitles :
          LET n == [NoNorm EXCEPT !.pc = "done", !.fn = "generateSearchQueries",
                                  !.title = title, !.subtitle = subtitle]
          IN  norm' = IF normalizeThrows(title, subtitle)
                      THEN [n EXCEPT !.threw = TRUE]
                      ELSE [n EXCEPT !.out = normalizeTitleAndSubtitle(title, subtitle),
                                     !.queries =
                                        generateQueriesWithSubtitle(title, subtitle)]
    /\ UNCHANGED <<config, storage, cache, now, pc, msg, local, sy, api, stats,
                   response, trace, cachedFor, calls, ticks, popup, llm, other,
                   settings, auto>>

NextNormalize ==
    \/ CallNormalizeText
    \/ CallNormalizeAmazonTitleToSearch
    \/ CallGenerateSearchQueries

\* the functions read nothing of the service worker's state: one initial
\* state of it is enough
\* the functions read neither the cache nor the stored key: one initial state
InitPure ==
    /\ Init
    /\ cache = << >>
    /\ storage.youtubeApiKey = NoKey

SpecNormalize == InitPure /\ [][NextNormalize]_vars

(***************************************************************************)
(* normalizeYouTubeTextFallback (src/shared/regexFallbackNormalize.ts)     *)
(***************************************************************************)
\* characters outside the Basic Multilingual Plane and symbols are written
\* as one token each: "EMOJI" (U+1F600), "SUN" (U+2600)
EmojiChars == {"EMOJI", "SUN"}

\* the five emoji replace() calls
removeEmojis(s) == SelectSeq(s, LAMBDA c : c \notin EmojiChars)

\* the characters [^\w\s\-.,()] leaves in place
IsBasicChar(c) == IsWordChar(c) \/ IsSpace(c) \/ c \in {"-", ".", ",", "(", ")"}

\* .replace(/[^\w\s\-.,()]/g, '')
removeSpecial(s) == SelectSeq(s, IsBasicChar)

\* the parts of a pattern: an alternation of literal strings, tried in the
\* order written; \d+; \s*
Alt(strings) == [t |-> "alt", alts |-> strings]
Digits == [t |-> "digits", alts |-> <<>>]
Spaces == [t |-> "spaces", alts |-> <<>>]

\* the ten patterns, each between two \b and with the flags g and i;
\* months? is the alternation months|month, and (part \d+|episode \d+)
\* is (part |episode )\d+
patternsToRemove ==
    << <<Alt(<<<<"r","e","v","i","e","w">>, <<"u","n","b","o","x","i","n","g">>,
             <<"u","n","b","o","x">>, <<"o","p","e","n","i","n","g">>,
             <<"f","i","r","s","t"," ","l","o","o","k">>,
             <<"h","a","n","d","s"," ","o","n">>, <<"h","a","n","d","s","-","o","n">>>>)>>,
       <<Alt(<<<<"v","s">>, <<"v","e","r","s","u","s">>,
             <<"c","o","m","p","a","r","i","s","o","n">>,
             <<"c","o","m","p","a","r","e","d"," ","t","o">>, <<"v","s",".">>>>)>>,
       <<Alt(<<<<"a","f","t","e","r"," ">>>>),
         Digits,
         Spaces,
         Alt(<<<<"m","o","n","t","h","s">>, <<"m","o","n","t","h">>,
             <<"w","e","e","k","s">>, <<"w","e","e","k">>, <<"d","a","y","s">>,
             <<"d","a","y">>, <<"y","e","a","r","s">>, <<"y","e","a","r">>>>)>>,
       <<Digits,
         Spaces,
         Alt(<<<<"m","o","n","t","h","s">>, <<"m","o","n","t","h">>,
             <<"w","e","e","k","s">>, <<"w","e","e","k">>, <<"d","a","y","s">>,
             <<"d","a","y">>, <<"y","e","a","r","s">>, <<"y","e","a","r">>>>),
         Spaces,
         Alt(<<<<"l","a","t","e","r">>, <<"a","f","t","e","r">>, <<"u","p","d","a","t","e">>>>)>>,
       <<Alt(<<<<"w","o","r","t","h"," ","i","t">>,
             <<"s","h","o","u","l","d"," ","y","o","u"," ","b","u","y">>,
             <<"d","o","n","'","t"," ","b","u","y">>, <<"b","u","y"," ","t","h","i","s">>,
             <<"h","o","n","e","s","t"," ","r","e","v","i","e","w">>>>)>>,
       <<Alt(<<<<"2","0","2","4">>, <<"2","0","2","3">>, <<"2","0","2","2">>,
             <<"2","0","2","1">>, <<"2","0","2","0">>>>),
         Spaces,
         Alt(<<<<"r","e","v","i","e","w">>, <<"u","p","d","a","t","e">>>>)>>,
       <<Alt(<<<<"y","o","u"," ","n","e","e","d"," ","t","o"," ","k","n","o","w">>,
             <<"e","v","e","r","y","t","h","i","n","g"," ","y","o","u"," ","n","e","e","d">>,
             <<"b","e","f","o","r","e"," ","y","o","u"," ","b","u","y">>>>)>>,
       <<Alt(<<<<"r","e","a","l"," ","t","a","l","k">>, <<"h","o","n","e","s","t">>,
             <<"b","r","u","t","a","l","l","y"," ","h","o","n","e","s","t">>,
             <<"s","p","o","i","l","e","r">>>>)>>,
       <<Alt(<<<<"p","a","r","t"," ">>, <<"e","p","i","s","o","d","e"," ">>>>),
         Digits>>,
       <<Alt(<<<<"f","t",".">>, <<"f","e","a","t","u","r","i","n","g">>, <<"w","i","t","h">>>>)>> >>

\* \b between the positions i - 1 and i of s
wordBoundary(s, i) ==
    (i - 1 >= 1 /\ IsWordChar(s[i - 1])) # (i <= Len(s) /\ IsWordChar(s[i]))

NoMatch == -1

\* the ends that part e of a pattern can reach from position i of s, in the
\* order in which the matcher tries them
partEnds(s, i, e) ==
    IF e.t = "alt"
    THEN [k \in 1..Len(SelectSeq(e.alts, LAMBDA a : startsWithAtCI(s, i, a))) |->
             i + Len(SelectSeq(e.alts, LAMBDA a : startsWithAtCI(s, i, a))[k]) - 1]
    ELSE IF e.t = "digits"
    THEN [k \in 1..(runOf(s, i, IsDigit) - i + 1) |-> runOf(s, i, IsDigit) - k + 1]
    ELSE [k \in 1..(runOf(s, i, IsSpace) - i + 2) |-> runOf(s, i, IsSpace) - k + 1]

\* the index of the last character of the match of the parts k.. of pat
\* at position i of s, followed by \b; NoMatch when there is none
RECURSIVE matchFrom(_, _, _, _)
firstMatch(s, pat, k, ends) ==
    IF ends = <<>> THEN NoMatch ELSE matchFrom(s, ends[1] + 1, pat, k + 1)

matchFrom(s, i, pat, k) ==
    IF k > Len(pat)
    THEN IF wordBoundary(s, i) THEN i - 1 ELSE NoMatch
    ELSE firstMatch(s, pat, k,
             SelectSeq(partEnds(s, i, pat[k]),
                       LAMBDA e : matchFrom(s, e + 1, pat, k + 1) # NoMatch))

\* the match of \b pat \b at position i
matchAt(s, i, pat) == IF wordBoundary(s, i) THEN matchFrom(s, i, pat, 1) ELSE NoMatch

\* text.replace(pattern, ' ') from position `from` on: matches are taken
\* from left to right and do not overlap
RECURSIVE replaceFrom(_, _, _)
replaceAt(s, pat, from, hits) ==
    IF hits = <<>> THEN SubSeq(s, from, Len(s))
    ELSE SubSeq(s, from, hits[1] - 1) \o <<" ">>
             \o replaceFrom(s, pat, matchAt(s, hits[1], pat) + 1)

replaceFrom(s, pat, from) ==
    replaceAt(s, pat, from,
              SelectSeq([k \in 1..(Len(s) - from + 1) |-> from + k - 1],
                        LAMBDA i : matchAt(s, i, pat) # NoMatch))

\* `for (const pattern of patternsToRemove) text = text.replace(pattern, ' ')`,
\* the first k patterns
RECURSIVE removePatterns(_, _)
removePatterns(s, k) ==
    IF k = 0 THEN s
    ELSE replaceFrom(removePatterns(s, k - 1), patternsToRemove[k], 1)

keepAcronyms ==
    {<<"U","S","B">>, <<"H","D","M","I">>, <<"U","S","B","-","C">>,
     <<"U","S","B","-","A">>, <<"S","D">>, <<"S","S","D">>, <<"H","D","D">>,
     <<"R","A","M">>, <<"C","P","U">>, <<"G","P","U">>, <<"O","L","E","D">>,
     <<"L","C","D">>, <<"L","E","D">>, <<"I","P","S">>, <<"H","D","R">>, <<"4","K">>,
     <<"8","K">>, <<"1","0","8","0","p">>, <<"7","2","0","p">>, <<"W","i","F","i">>,
     <<"W","i","-","F","i">>, <<"B","T">>, <<"N","F","C">>, <<"G","P","S">>}

IsUpper(c) == \E i \in 1..26 : c = UpperChars[i]

\* the \w runs that /\b([A-Z]{3,})\b/g matches: three or more capitals
capsRuns(s, runs) ==
    SelectSeq(runs, LAMBDA r : r[2] - r[1] + 1 >= 3 /\ \A i \in r[1]..r[2] : IsUpper(s[i]))

\* the replacement: kept acronyms stay, other words keep their first capital
titleCaseRuns(s, runs) ==
    [i \in 1..Len(s) |->
        IF \E k \in 1..Len(runs) :
               /\ runs[k][1] < i /\ i <= runs[k][2]
               /\ SubSeq(s, runs[k][1], runs[k][2]) \notin keepAcronyms
        THEN toLowerChar(s[i])
        ELSE s[i]]

titleCase(s) == titleCaseRuns(s, capsRuns(s, WordRuns(s)))

BRANDS ==
    <<<<"a","p","p","l","e">>, <<"s","a","m","s","u","n","g">>, <<"s","o","n","y">>,
      <<"g","o","o","g","l","e">>, <<"m","i","c","r","o","s","o","f","t">>, <<"l","g">>,
      <<"d","e","l","l">>, <<"h","p">>, <<"l","e","n","o","v","o">>, <<"a","s","u","s">>,
      <<"a","c","e","r">>, <<"r","a","z","e","r">>, <<"l","o","g","i","t","e","c","h">>,
      <<"b","o","s","e">>, <<"j","b","l">>, <<"s","e","n","n","h","e","i","s","e","r">>,
      <<"a","n","k","e","r">>, <<"b","e","l","k","i","n">>,
      <<"c","o","r","s","a","i","r">>, <<"h","y","p","e","r","x">>>>

\* the one pattern of brandPatterns, with the flags g and i
brandPattern == <<Alt(BRANDS)>>

\* text.indexOf(p), 1-based; p occurs in text
indexOf(text, p) ==
    CHOOSE i \in 1..Len(text) :
        startsWithAt(text, i, p) /\ \A j \in 1..(i - 1) : ~startsWithAt(text, j, p)

\* words.slice(0, 5)
sliceWords(words) == SubSeq(words, 1, IF Len(words) < 5 THEN Len(words) ELSE 5)

\* brandMatch[0] + ' ' + the first five words behind its first occurrence
brandAndWords(text, brand) ==
    brand \o <<" ">>
          \o join(sliceWords(split(trim(dropBefore(text, indexOf(text, brand) + Len(brand))))))

\* the brand block: hits are the positions where brandPattern matches
brandProduct(text, hits) ==
    IF hits = <<>> THEN text
    ELSE brandAndWords(text, SubSeq(text, hits[1], matchAt(text, hits[1], brandPattern)))

extractProduct(text) ==
    brandProduct(text, SelectSeq(Indices(text),
                                 LAMBDA i : matchAt(text, i, brandPattern) # NoMatch))

\* productName.replace(/[.,;:!?]+$/, '')
stripTrailingPunctuation(s) ==
    IF \E i \in 1..Len(s) : s[i] \notin {".", ",", ";", ":", "!", "?"}
    THEN SubSeq(s, 1, CHOOSE i \in 1..Len(s) :
                          /\ s[i] \notin {".", ",", ";", ":", "!", "?"}
                          /\ \A j \in (i + 1)..Len(s) : s[j] \in {".", ",", ";", ":", "!", "?"})
    ELSE <<>>

FallbackMaxLength == 120
EllipsisCut == 117
MinUseful == 3
Str_product == <<"p","r","o","d","u","c","t">>

\* `if (productName.length > 120) productName = productName.substring(0, 117) + '...'`
ellipsize(productName) ==
    IF Len(productName) > FallbackMaxLength
    THEN substring0(productName, EllipsisCut) \o <<".", ".", ".">>
    ELSE productName

\* the cleaned version of the original title
cleanedTitle(title) ==
    substring0(trim(collapseWs(removeSpecial(title))), FallbackMaxLength)

\* a fallback that returns the name as it is
orProductNever(productName) == productName

\* `productName || 'product'`
orProduct(productName) == IF productName = <<>> THEN Str_product ELSE productName

\* `if (productName.length < 3) productName = <cleaned title>` and the return
nameOrTitle(productName, title) ==
    orProduct(IF Len(productName) < MinUseful THEN cleanedTitle(title) ELSE productName)

\* title, and description when it is given and not empty
combine(title, description) ==
    IF description # NoString /\ description # <<>>
    THEN title \o <<" ">> \o description
    ELSE title

normalizeYouTubeTextFallback(title, description) ==
    nameOrTitle(
        ellipsize(stripTrailingPunctuation(trim(collapseWs(
            extractProduct(titleCase(trim(collapseWs(
                removePatterns(removeSpecial(removeEmojis(combine(title, description))),
                               Len(patternsToRemove)))))))))),
        title)

Video_Bangs ==
    <<"!","!","!">>
Video_Dot ==
    <<".">>
Video_Short ==
    <<"a","b">>
Video_Sony ==
    <<"S","o","n","y"," ","W","H","-","1","0","0","0","X","M","5"," ","R",
      "e","v","i","e","w">>
Video_iPhone ==
    <<"EMOJI"," ","A","M","A","Z","I","N","G"," ","A","p","p","l","e"," ",
      "i","P","h","o","n","e"," ","1","5"," ","P","r","o"," ","M","a","x",
      " ","r","e","v","i","e","w"," ","a","f","t","e","r"," ","6"," ","m",
      "o","n","t","h","s","!","!">>
Video_Laptop ==
    <<"H","P","X"," ","H","P"," ","L","a","p","t","o","p"," ","v","s",".",
      " ","D","e","l","l"," ","X","P","S"," ","1","3">>
Video_Long ==
    <<"B","u","i","l","d","i","n","g"," ","t","h","e"," ","u","l","t","i",
      "m","a","t","e"," ","q","u","i","e","t"," ","m","e","c","h","a","n",
      "i","c","a","l"," ","k","e","y","b","o","a","r","d"," ","f","r","o",
      "m"," ","s","c","r","a","t","c","h"," ","i","n","c","l","u","d","i",
      "n","g"," ","s","w","i","t","c","h","e","s"," ","s","t","a","b","i",
      "l","i","z","e","r","s"," ","k","e","y","c","a","p","s"," ","p","l",
      "a","t","e"," ","f","o","a","m"," ","a","n","d"," ","a"," ","c","u",
      "s","t","o","m"," ","c","o","i","l","e","d"," ","c","a","b","l","e">>
Description_Part ==
    <<"P","a","r","t"," ","2"," ","f","t","."," ","S","a","m">>

VideoWords ==
    {<<"R","e","v","i","e","w">>,
     <<"S","o","n","y">>,
     <<"A","M","A","Z","I","N","G">>,
     <<"!","!","!">>,
     <<"a","f","t","e","r"," ","6"," ","m","o","n","t","h","s">>,
     <<"U","S","B">>}

\* titles made of up to MaxVideoWords of these
MaxVideoWords == 2
WordVideoTitles ==
    {join(ws) : ws \in UNION {[1..n -> VideoWords] : n \in 1..MaxVideoWords}}

VideoTitles ==
    {<<>>, Video_Bangs, Video_Dot, Video_Short, Video_Sony, Video_iPhone,
     Video_Laptop, Video_Long} \cup WordVideoTitles
\* the description parameter: left out, empty, or a text
Descriptions == {NoString, <<>>, Description_Part}

\* normalizeYouTubeTextFallback(title, description) is called and runs to
\* its end; nothing in it can throw on strings
CallNormalizeYouTubeTextFallback ==
    /\ norm.pc = "idle"
    /\ \E title \in VideoTitles, description \in Descriptions :
          norm' = [NoNorm EXCEPT !.pc = "done", !.fn = "normalizeYouTubeTextFallback",
                                 !.title = title, !.subtitle = description,
                                 !.out = normalizeYouTubeTextFallback(title, description)]
    /\ UNCHANGED <<config, storage, cache, now, pc, msg, local, sy, api, stats,
                   response, trace, cachedFor, calls, ticks, popup, llm, other,
                   settings, auto>>

NextFallback == CallNormalizeYouTubeTextFallback

SpecFallback == InitPure /\ [][NextFallback]_vars

TypeOK ==
    /\ pc \in {"idle", "proxy", "ai", "cacheGet", "cacheRemove", "apiStart",
               "searchFetch", "statsFetch", "done"}
    /\ config.apiKey \in Keys \cup {NoKey}
    /\ calls \in 0..(MaxCalls + MaxProductCalls)
    /\ ticks \in 0..MaxTicks
    /\ popup.pc \in {"idle", "backend", "send", "worker", "done"}
    /\ popup.backendRequests \in 0..1
    /\ llm.pc \in {"idle", "fetch", "done"}


(***************************************************************************)
(* Properties of searchYouTubeForProduct                                   *)
(***************************************************************************)
ProductCall == msg.action = "searchYouTubeForProduct"
ProductDone == ProductCall /\ pc = "done" /\ response.sent

\* the proxy was asked and did not deliver: quota signal, timeout, network
\* failure, non-OK status, unrecognised body
ProxyFailed == trace.proxy \in {"quota", "abort", "failed"}
ProxyDelivered == trace.proxy \in {"results", "videos"}

IsHit(s) == s.ok /\ Len(s.results) > 0

\* what the direct-provider searches of this call delivered: the results of
\* the last search when it found something, else nothing
ProviderResults ==
    IF trace.searched # <<>> /\ IsHit(trace.searched[Len(trace.searched)])
    THEN trace.searched[Len(trace.searched)].results
    ELSE <<>>

\* C1: a failed proxy attempt is never raised to the caller of
\* searchYouTubeForProduct: the only error such a call answers with is the
\* missing-credentials error of the direct path, and once the direct path
\* has a key the call goes through the provider searches and answers with
\* success and with what they delivered.
C1_ProxyFailureFallsBack ==
    (ProductCall /\ ProxyFailed) =>
        /\ (pc = "done" /\ ~response.success) =>
               (response.error = MsgUnavailable /\ local.apiKey = NoKey)
        /\ (local.apiKey # NoKey) =>
               /\ pc \in {"cacheGet", "cacheRemove", "apiStart", "searchFetch",
                          "statsFetch", "done"}
               /\ local.qi >= 1
               /\ pc = "done" =>
                      /\ response.success
                      /\ trace.searched # <<>>
                      /\ response.data = ProviderResults

\* C1 witness: the proxy signalled quota exhaustion, a key was configured,
\* and the call answered with results the provider delivered.
C1_Witness ==
    /\ ProductDone /\ trace.proxy = "quota"
    /\ local.apiKey # NoKey /\ trace.requested
    /\ response.success /\ response.data # <<>>

NoCredentials == config.apiKey = NoKey /\ storage.youtubeApiKey = NoKey

\* C2: a call with a non-empty title, no usable credentials (no key in
\* memory or storage) and a failed proxy answers with the "service
\* unavailable / no API keys configured" error.
C2_NoCredentialsFails ==
    (ProductDone /\ msg.title # <<>> /\ ProxyFailed /\ NoCredentials) =>
        (~response.success /\ response.error = MsgUnavailable)

\* C3: a call that went into the variant loop answers with an empty list
\* only when some search completed and found nothing; when every search of
\* the loop failed, the call fails.
C3_EmptyOnlyWhenSearched ==
    (ProductDone /\ local.queries # <<>>) =>
        /\ (response.success /\ response.data = <<>>) =>
               \E i \in 1..Len(trace.searched) :
                   trace.searched[i].ok /\ trace.searched[i].results = <<>>
        /\ (trace.searched # <<>>
              /\ \A i \in 1..Len(trace.searched) : ~trace.searched[i].ok) =>
               ~response.success

InSearch == pc \in {"cacheGet", "cacheRemove", "apiStart", "searchFetch", "statsFetch"}

\* C4: the variants are searched one at a time in list order; the search in
\* progress is the one for the next variant of the list, every variant
\* searched before it failed or found nothing, and the call answers with the
\* results of the first variant that found something, searching none after it.
C4_VariantsInOrder ==
    (ProductCall /\ local.queries # <<>>) =>
        /\ Len(trace.searched) <= Len(local.queries)
        /\ \A i \in 1..Len(trace.searched) :
               /\ trace.searched[i].query = local.queries[i]
               /\ IsHit(trace.searched[i]) =>
                      (i = Len(trace.searched) /\ pc = "done")
        /\ InSearch =>
               /\ local.qi = Len(trace.searched) + 1
               /\ sy.query = local.queries[local.qi]
        /\ pc = "done" =>
               /\ response.success
               /\ response.data = ProviderResults
               /\ (response.data = <<>>) => Len(trace.searched) = Len(local.queries)

\* C4 witness: the first variant found nothing, the second found something,
\* the call answered with it and left later variants unsearched.
C4_Witness ==
    /\ ProductDone /\ Len(trace.searched) = 2 /\ Len(local.queries) > 2
    /\ ~IsHit(trace.searched[1]) /\ IsHit(trace.searched[2])
    /\ response.data = trace.searched[2].results

\* C5: when the proxy answers OK with a results array and success = true,
\* the call answers with that array; when it answers with a legacy videos
\* array, the call answers with one VideoResult per video (channelTitle from
\* channelName or channelTitle, viewCount defaulting to 0); in both cases no
\* request goes to the provider.
C5_ProxyResultsReturned ==
    (ProductCall /\ ProxyDelivered) =>
        /\ pc = "done" /\ response.success
        /\ ~trace.requested /\ trace.searched = <<>>
        /\ trace.proxy = "results" => response.data = trace.proxyBody
        /\ trace.proxy = "videos" =>
               /\ Len(response.data) = Len(trace.proxyBody)
               /\ \A i \in 1..Len(trace.proxyBody) :
                    LET v == trace.proxyBody[i]
                        r == response.data[i]
                    IN  /\ DOMAIN r = DOMAIN VideoResult("", "", 0, None)
                        /\ r.videoId = v.videoId
                        /\ r.channelTitle = (IF v.channelName # None THEN v.channelName[1]
                                             ELSE IF v.channelTitle # None
                                             THEN v.channelTitle[1] ELSE None)
                        /\ r.viewCount = (IF v.viewCount # None THEN v.viewCount[1] ELSE 0)

\* C5 witness: the proxy sent a non-empty legacy videos array and the call
\* answered with the mapped list.
C5_Witness ==
    /\ ProductDone /\ trace.proxy = "videos" /\ trace.proxyBody # <<>>
    /\ Len(response.data) = Len(trace.proxyBody)


(***************************************************************************)
(* Properties of the retry loop of the provider calls                      *)
(***************************************************************************)
RateLimited(a) == a.class = "rateLimited"

AllRateLimited(attempts) ==
    \A i \in 1..Len(attempts) : RateLimited(attempts[i])

\* the last answer was OK and every answer before it was rate-limited
RetriedThenOk(attempts) ==
    /\ Len(attempts) >= 1
    /\ attempts[Len(attempts)].class = "ok"
    /\ \A i \in 1..(Len(attempts) - 1) : RateLimited(attempts[i])

\* C6: one call of searchYouTubeAPI or fetchVideoStatistics makes at most 3
\* HTTP attempts; answered 429 or 403 every time it goes on until the third
\* attempt and fails right after it; when an OK answer follows at most two
\* rate-limited ones the call returns (searchYouTubeAPI: unless the
\* fetchVideoStatistics call inside that attempt fails).
C6_AtMostThreeAttempts ==
    /\ Len(trace.sAttempts) + (IF pc = "searchFetch" THEN 1 ELSE 0) <= 3
    /\ Len(trace.vAttempts) + (IF pc = "statsFetch" THEN 1 ELSE 0) <= 3
    /\ (AllRateLimited(trace.sAttempts) /\ Len(trace.sAttempts) \in 1..2) =>
           (trace.sEnd = "running" /\ pc = "searchFetch")
    /\ (AllRateLimited(trace.sAttempts) /\ Len(trace.sAttempts) = 3) =>
           (trace.sEnd = "threw" /\ pc = "done")
    /\ (AllRateLimited(trace.vAttempts) /\ Len(trace.vAttempts) \in 1..2) =>
           (trace.vEnd = "running" /\ pc = "statsFetch")
    /\ (AllRateLimited(trace.vAttempts) /\ Len(trace.vAttempts) = 3) =>
           (trace.vEnd = "threw" /\ pc = "done")
    /\ RetriedThenOk(trace.vAttempts) =>
           (trace.vEnd = "returned" /\ trace.sEnd = "returned")
    /\ RetriedThenOk(trace.sAttempts) =>
           \/ trace.sEnd = "returned"
           \/ trace.sEnd = "running" /\ trace.vEnd = "running"
           \/ trace.sEnd = "threw" /\ trace.vEnd = "threw"

\* C6 witness: three rate-limited answers in a row ended the search call.
C6_Witness ==
    /\ Len(trace.sAttempts) = 3 /\ AllRateLimited(trace.sAttempts)
    /\ trace.sEnd = "threw" /\ pc = "done" /\ ~response.success

\* C7: the error a provider call surfaces when its retry budget is exhausted
\* tells rate-limit exhaustion apart from every other failure: it is
\* surfaced only when every answer of the call was a 429 or 403.
C7_ExhaustionIsRateLimit ==
    /\ (trace.sEnd = "threw" /\ trace.sError.message = MsgSearchRetries) =>
           AllRateLimited(trace.sAttempts)
    /\ (trace.vEnd = "threw" /\ trace.vError.message = MsgStatsRetries) =>
           AllRateLimited(trace.vAttempts)

\* C8: an answer that is a non-retryable failure (non-OK status other than
\* 403/429, malformed JSON body, failed fetch) is the last answer of its
\* call: the call throws at once, without a sleep after that answer and
\* without a further attempt, whatever the error message says.
C8_NonRetryablePropagates ==
    /\ \A i \in 1..Len(trace.sAttempts) :
           trace.sAttempts[i].class = "failure" =>
               /\ i = Len(trace.sAttempts)
               /\ trace.sEnd = "threw"
               /\ Len(trace.sSleeps) = i - 1
    /\ \A i \in 1..Len(trace.vAttempts) :
           trace.vAttempts[i].class = "failure" =>
               /\ i = Len(trace.vAttempts)
               /\ trace.vEnd = "threw"
               /\ Len(trace.vSleeps) = i - 1

\* C9: within one provider call the i-th backoff sleep lasts 1000 * 2^(i-1)
\* ms (1000 before the 2nd attempt, 2000 before the 3rd), one sleep before
\* every attempt after the first, and every new call starts again at 1000.
C9_BackoffSchedule ==
    /\ \A i \in 1..Len(trace.sSleeps) : trace.sSleeps[i] = 1000 * 2^(i - 1)
    /\ \A i \in 1..Len(trace.vSleeps) : trace.vSleeps[i] = 1000 * 2^(i - 1)
    /\ pc = "searchFetch" => Len(trace.sSleeps) = Len(trace.sAttempts)
    /\ pc = "statsFetch" => Len(trace.vSleeps) = Len(trace.vAttempts)

\* C9 witness: the search call slept 1000 and 2000 ms before its third
\* attempt, and the statistics call started by that attempt slept 1000 ms
\* before its second.
C9_Witness ==
    /\ trace.sSleeps = <<1000, 2000>>
    /\ trace.vSleeps = <<1000>> /\ pc = "statsFetch"

(***************************************************************************)
(* Properties of the search cache                                          *)
(***************************************************************************)
SameLetter(c, d) == toLowerChar(c) = toLowerChar(d)

\* everything of s outside positions i..j is whitespace
OuterWhitespace(s, i, j) ==
    \A n \in 1..Len(s) : (n < i \/ n > j) => IsSpace(s[n])

\* a and b differ only in letter case and in leading or trailing whitespace
SameButCaseAndOuterWhitespace(a, b) ==
    \E i \in 1..(Len(a) + 1), j \in 0..Len(a) :
        /\ j >= i - 1
        /\ OuterWhitespace(a, i, j)
        /\ \E k \in 1..(Len(b) + 1) :
               LET l == k + (j - i)
               IN  /\ l <= Len(b)
                   /\ OuterWhitespace(b, k, l)
                   /\ \A n \in 0..(j - i) : SameLetter(a[i + n], b[k + n])

LowerWords(s) == [i \in 1..Len(split(s)) |-> toLowerCase(split(s)[i])]

\* a and b differ only in letter case and in whitespace
SameButCaseAndWhitespace(a, b) == LowerWords(a) = LowerWords(b)

IsFreshEntry(k) == now - cache[k].fetchedAt < CACHE_TTL

SearchCall == msg.action = "searchYouTube"

\* searchYouTube looked the query up in the cache and went on to the API
LookupMissed ==
    /\ SearchCall /\ ~sy.bypassCache
    /\ pc = "searchFetch" /\ trace.sAttempts = <<>> /\ ~trace.cacheHit

LookupHit == SearchCall /\ pc = "done" /\ trace.cacheHit

\* C10 as stated: a query that differs only in letter case and/or whitespace
\* from the query an entry was stored under has the same cache key, and a
\* lookup under it never misses that entry while it is fresh.
C10_CaseAndWhitespaceCollide ==
    /\ SearchCall =>
           \A k \in DOMAIN cache :
               SameButCaseAndWhitespace(cachedFor[k], sy.query) =>
                   getCacheKey(sy.query) = getCacheKey(cachedFor[k])
    /\ LookupMissed =>
           \A k \in DOMAIN cache :
               ~(IsFreshEntry(k) /\ SameButCaseAndWhitespace(cachedFor[k], sy.query))

\* C10 amended: a query that differs only in letter case and/or in leading or
\* trailing whitespace from the query an entry was stored under has the same
\* cache key; a lookup under it never misses that entry while it is fresh,
\* and a lookup that hits answers with the results stored under such a query.
C10_CaseAndOuterWhitespaceCollide ==
    /\ SearchCall =>
           \A k \in DOMAIN cache :
               SameButCaseAndOuterWhitespace(cachedFor[k], sy.query) =>
                   getCacheKey(sy.query) = getCacheKey(cachedFor[k])
    /\ LookupMissed =>
           \A k \in DOMAIN cache :
               ~(IsFreshEntry(k) /\ SameButCaseAndOuterWhitespace(cachedFor[k], sy.query))
    /\ LookupHit =>
           \E k \in DOMAIN cache :
               /\ SameButCaseAndOuterWhitespace(cachedFor[k], sy.query)
               /\ response.data = slice0(cache[k].results, MAX_RESULTS)

\* C10 witness: a lookup for "echo dot " is answered from the entry that a
\* search for "ECHO DOT" stored.
C10_Witness ==
    /\ LookupHit /\ sy.query = Str_echo_dot_
    /\ \E k \in DOMAIN cache :
           /\ cachedFor[k] = Str_ECHO_DOT
           /\ response.data = slice0(cache[k].results, MAX_RESULTS)


\* the step in which getCachedResults settles its storage read
LookupStep == pc = "cacheGet" /\ pc' # "cacheGet"

\* the step in which getCachedResults settles the removal of an expired entry
RemoveStep == pc = "cacheRemove" /\ pc' # "cacheRemove"

LookupKey == getCacheKey(sy.query)

\* C11: getCachedResults returns the stored results exactly when an entry
\* exists under the key with now - fetchedAt < ttl, and then leaves the
\* store alone; an entry with now - fetchedAt >= ttl is not returned, that
\* read removes it from the store, and the search goes on as after a miss.
C11_FreshOrAbsent ==
    [][ /\ LookupStep =>
              IF LookupKey \in DOMAIN cache
                 /\ now - cache[LookupKey].fetchedAt < CACHE_TTL
              THEN /\ trace'.cacheHit
                   /\ cache' = cache
                   /\ SearchCall =>
                          response'.data = slice0(cache[LookupKey].results, MAX_RESULTS)
              ELSE /\ ~trace'.cacheHit
                   /\ (LookupKey \in DOMAIN cache) <=> (pc' = "cacheRemove")
                   /\ pc' \in {"cacheRemove", "searchFetch", "done"}
        /\ RemoveStep =>
              /\ LookupKey \notin DOMAIN cache'
              /\ \A k \in DOMAIN cache \ {LookupKey} :
                     k \in DOMAIN cache' /\ cache'[k] = cache[k]
              /\ ~trace'.cacheHit
              /\ pc' \in {"searchFetch", "done"}
      ]_vars

\* C11 witness: a read found an entry of exactly the TTL's age and is about
\* to remove it.
C11_Witness ==
    /\ pc = "cacheRemove" /\ LookupKey \in DOMAIN cache
    /\ now - cache[LookupKey].fetchedAt = CACHE_TTL


\* a request of a search that was to read the cache first is in flight
RequestAfterLookup == ~sy.bypassCache /\ pc \in {"searchFetch", "statsFetch"}

\* C12: a searchYouTube call with bypassCache = false that runs while the
\* entry under its cache key is younger than the TTL answers with the
\* cached results and issues no request to the YouTube API: the read of a
\* fresh entry ends the call with the stored results, and no request of
\* such a call is in flight while a fresh entry exists under its key.
C12_FreshEntryServesLaterCalls ==
    [][ /\ (LookupStep /\ SearchCall /\ LookupKey \in DOMAIN cache
              /\ now - cache[LookupKey].fetchedAt < CACHE_TTL) =>
              /\ pc' = "done" /\ response'.success
              /\ response'.data = slice0(cache[LookupKey].results, MAX_RESULTS)
              /\ ~trace'.requested
        /\ (RequestAfterLookup =>
              ~(LookupKey \in DOMAIN cache /\ IsFreshEntry(LookupKey)))'
      ]_vars

\* C12 witness: the second call is answered from the entry that the first
\* call stored.
C12_Witness ==
    /\ LookupHit /\ calls = 2 /\ ~trace.requested
    /\ cache[LookupKey].results # StoredResults
    /\ response.data = cache[LookupKey].results


\* the store after a put of `entry` under key k
CacheWith(k, entry) ==
    [j \in DOMAIN cache \cup {k} |-> IF j = k THEN entry ELSE cache[j]]

\* the store after the removal of key k
CacheWithout(k) == [j \in DOMAIN cache \ {k} |-> cache[j]]

\* the provider search in progress ends in this step
SearchEnds == trace.sEnd = "running" /\ trace'.sEnd # "running"

C14_BypassSkipsCacheRead ==
    ((ProductCall \/ SearchCall) /\ msg.bypassCache) =>
        /\ ~trace.cacheHit
        /\ (pc = "done" /\ response.success /\ response.data # <<>>
              /\ trace.proxy \notin {"results", "videos"}) =>
               /\ trace.sEnd = "returned"
               /\ LookupKey \in DOMAIN cache
               /\ cache[LookupKey].results = response.data


\* C15: every outbound call carries a timeout, so a searchYouTubeForProduct
\* call that was started always eventually returns or fails, even when a
\* remote endpoint never answers.
C15_ProductCallEnds ==
    (ProductCall /\ pc # "done") ~> (pc = "done")


\* C16: every provider request (search and statistics, of every variant) of
\* one searchYouTubeForProduct call carries the same API key, the one the
\* call resolved when it checked its credentials, even when a setApiKey
\* message is handled while the call waits for I/O.
C16_OneKeyPerCall ==
    ProductCall => Cardinality(trace.keys) <= 1

\* C17: with "use my own key" switched on and a YouTube API key stored, a
\* product search sends no request to the backend proxy, neither from the
\* popup nor from the service worker.
OwnKeyConfigured == storage.useOwnYouTubeKey /\ storage.youtubeApiKey # NoKey

C17_OwnKeyNeverAsksBackend ==
    OwnKeyConfigured => (popup.backendRequests = 0 /\ trace.proxy = "none")


(***************************************************************************)
(* Properties of extractProductsWithLLM                                    *)
(***************************************************************************)
\* extractProductsWithLLM ended on a JSON body
LlmDone ==
    llm.pc = "done" /\ llm.fn = "extractProductsWithLLM" /\ llm.answer.kind = "json"

\* the two shapes of a body: a products array, or the single object with a
\* productName string and a confidence number
IsProductsArray(b) == b.products.t = "array"
IsLegacyObject(b) ==
    ~IsProductsArray(b) /\ b.productName.t = "string" /\ b.confidence.t = "number"

CandidatesOf(b) ==
    IF IsProductsArray(b) THEN b.products.items
    ELSE <<[productName |-> b.productName, confidence |-> b.confidence]>>

\* confidence >= 0.5 and a non-empty productName
Passes(p) ==
    /\ p.confidence.t = "number" /\ p.confidence.n >= HalfConfidence
    /\ p.productName.t = "string" /\ p.productName.s # ""

\* C18: extractProductsWithLLM returns exactly the candidates of the body
\* that have confidence >= 0.5 and a non-empty productName, in the order of
\* the body; a single object {productName, confidence} counts as the list of
\* that one candidate.
C18_ExactlyPassingCandidates ==
    (LlmDone /\ (IsProductsArray(llm.answer.body) \/ IsLegacyObject(llm.answer.body))) =>
        /\ ~llm.threw
        /\ llm.products = SelectSeq(CandidatesOf(llm.answer.body), Passes)

\* C19: the list extractProductsWithLLM returns is sorted by descending
\* confidence, so its first element, the one extractProductWithLLM returns,
\* has maximal confidence.
C19_SortedByConfidence ==
    (llm.pc = "done" /\ ~llm.threw) =>
        \A i, j \in 1..Len(llm.products) :
            i < j => llm.products[i].confidence.n >= llm.products[j].confidence.n

\* C20: a body of neither shape makes extractProductsWithLLM raise the
\* invalid-structure error; a body of one of the two shapes none of whose
\* candidates passes the filter makes it return the empty list, no error.
C20_InvalidShapeRaises ==
    LlmDone =>
        LET b == llm.answer.body
            recognised == IsProductsArray(b) \/ IsLegacyObject(b)
        IN  /\ ~recognised => (llm.threw /\ llm.message = MsgInvalidStructure)
            /\ (recognised /\ SelectSeq(CandidatesOf(b), Passes) = <<>>) =>
                   (~llm.threw /\ llm.products = <<>>)

(***************************************************************************)
(* Properties of the title normalisation                                   *)
(***************************************************************************)
NormalizeTextDone == norm.fn = "normalizeText" /\ norm.pc = "done"
NormalizeAmazonDone == norm.fn = "normalizeAmazonTitleToSearch" /\ norm.pc = "done"
GenerateQueriesDone == norm.fn = "generateSearchQueries" /\ norm.pc = "done"

\* the words of entry occur in ws, one after the other
HasWordSequence(ws, entry) ==
    \E i \in 1..(Len(ws) - Len(entry) + 1) : SubSeq(ws, i, i + Len(entry) - 1) = entry

\* a bare 4-digit year of the 2020s
IsYearOf2020s(w) ==
    Len(w) = 4 /\ w[1] = "2" /\ w[2] = "0" /\ w[3] = "2" /\ w[4] \in DigitChars

\* C21: for every title, the output of normalizeText contains no entry of
\* the marketing-word set as a whitespace-delimited word (or word sequence,
\* for 'pack of' and 'set of') and no bare 4-digit year token of the 2020s.
C21_NoMarketingWords ==
    (NormalizeTextDone /\ ~norm.threw) =>
        LET ws == split(norm.out)
        IN  /\ \A m \in MARKETING_WORDS : ~HasWordSequence(ws, split(m))
            /\ \A i \in 1..Len(ws) : ~IsYearOf2020s(ws[i])

\* the parentheticals of s that match PRESERVE_PARENTHETICAL
PreservedParentheticals(s) ==
    {SubSeq(s, m[1], m[1] + m[2] - 1) :
        m \in {preserveMatches(s)[k] : k \in 1..Len(preserveMatches(s))}}

\* C22: whenever the title holds a parenthetical that matches the preserve
\* pattern, such as "(256GB)", the lowercased text of that parenthetical
\* occurs in the output of normalizeText, wherever in the title it stands.
C22_PreservedParentheticalSurvives ==
    (NormalizeTextDone /\ ~norm.threw) =>
        \A p \in PreservedParentheticals(norm.title) :
            includes(norm.out, toLowerCase(p))

\* C23: normalizeAmazonTitleToSearch removes the descriptive text that
\* follows the product name: for the Echo Dot title the result contains
\* "echo dot" and "5th gen" and none of "2022", "release", "smart speaker",
\* "alexa", "charcoal".
C23_EchoDotDescriptionRemoved ==
    (NormalizeAmazonDone /\ norm.title = Title_EchoDot /\ norm.subtitle = NoString) =>
        /\ ~norm.threw
        /\ includes(norm.out, <<"e","c","h","o"," ","d","o","t">>)
        /\ includes(norm.out, <<"5","t","h"," ","g","e","n">>)
        /\ ~includes(norm.out, <<"2","0","2","2">>)
        /\ ~includes(norm.out, <<"r","e","l","e","a","s","e">>)
        /\ ~includes(norm.out, <<"s","m","a","r","t"," ","s","p","e","a","k","e","r">>)
        /\ ~includes(norm.out, <<"a","l","e","x","a">>)
        /\ ~includes(norm.out, <<"c","h","a","r","c","o","a","l">>)

\* C24: normalizeAmazonTitleToSearch keeps the tokens that identify the
\* product, the tier qualifiers of the model name among them: for the title
\* "iPhone 15 Pro Max (256GB) - Titanium" the result contains iphone, 15,
\* pro, max and 256gb.
C24_IdentifyingTokensKept ==
    (NormalizeAmazonDone /\ norm.title = Title_iPhone /\ norm.subtitle = NoString) =>
        /\ ~norm.threw
        /\ includes(norm.out, <<"i","p","h","o","n","e">>)
        /\ includes(norm.out, <<"1","5">>)
        /\ includes(norm.out, Str_pro)
        /\ includes(norm.out, Str_max)
        /\ includes(norm.out, <<"2","5","6","g","b">>)

\* C25: for every title and optional subtitle, the output of
\* normalizeAmazonTitleToSearch is lowercase, has no leading, trailing or
\* repeated whitespace, and is at most 120 characters long.
C25_LowercaseCollapsedBounded ==
    (NormalizeAmazonDone /\ ~norm.threw) =>
        /\ toLowerCase(norm.out) = norm.out
        /\ norm.out # <<>> => (~IsSpace(norm.out[1]) /\ ~IsSpace(norm.out[Len(norm.out)]))
        /\ \A i \in 1..(Len(norm.out) - 1) :
               ~(IsSpace(norm.out[i]) /\ IsSpace(norm.out[i + 1]))
        /\ Len(norm.out) <= MaxQueryLength

\* a title longer than the limit was cut at a word boundary
C25_Witness ==
    /\ NormalizeAmazonDone /\ ~norm.threw
    /\ Len(norm.title) > MaxQueryLength
    /\ Len(norm.out) > WordBoundaryFloor
    /\ Len(norm.out) < MaxQueryLength

\* C26: generateSearchQueries returns the empty list for the empty title,
\* and for every non-empty title between 1 and 5 queries of which at least
\* one is a "review" query.
C26_QueriesForEveryTitle ==
    (GenerateQueriesDone /\ ~norm.threw) =>
        /\ norm.title = <<>> => norm.queries = <<>>
        /\ norm.title # <<>> =>
               /\ Len(norm.queries) \in 1..5
               /\ \E i \in 1..Len(norm.queries) :
                      includes(norm.queries[i], <<"r","e","v","i","e","w">>)

\* C27: the list generateSearchQueries returns has at most 5 entries, its
\* entries are pairwise distinct, and its first entry is the normalized
\* base query followed by " review".
C27_DistinctQueries ==
    (GenerateQueriesDone /\ ~norm.threw) =>
        /\ Len(norm.queries) <= 5
        /\ \A i, j \in 1..Len(norm.queries) : i # j => norm.queries[i] # norm.queries[j]
        /\ norm.queries # <<>> =>
               norm.queries[1] = normalizeTitleAndSubtitle(norm.title, norm.subtitle)
                                     \o <<" ","r","e","v","i","e","w">>

\* C28: normalizeText, normalizeAmazonTitleToSearch and generateSearchQueries
\* raise no exception for any input string, and return the empty string
\* (respectively the empty list) for empty or whitespace-only input.
C28_NeverThrows ==
    (NormalizeTextDone \/ NormalizeAmazonDone \/ GenerateQueriesDone) =>
        /\ ~norm.threw
        /\ trim(norm.title) = <<>> => (norm.out = <<>> /\ norm.queries = <<>>)

(***************************************************************************)
(* Properties of normalizeYouTubeTextFallback                              *)
(***************************************************************************)
FallbackDone == norm.fn = "normalizeYouTubeTextFallback" /\ norm.pc = "done"

\* s has no character that the cleaning keeps, whitespace aside
NothingUsable(s) ==
    s = NoString \/ \A i \in 1..Len(s) : IsSpace(s[i]) \/ ~IsBasicChar(s[i])

\* C29: normalizeYouTubeTextFallback never fails and, for every title and
\* optional description, returns a non-empty string of at most 120
\* characters; when nothing usable remains of the input, it returns the
\* literal "product".
C29_FallbackNeverEmpty ==
    FallbackDone =>
        /\ ~norm.threw
        /\ norm.out # <<>>
        /\ Len(norm.out) <= 120
        /\ (NothingUsable(norm.title) /\ NothingUsable(norm.subtitle)) =>
               norm.out = <<"p","r","o","d","u","c","t">>

\* a title of special characters only was answered with "product"
C29_Witness ==
    /\ FallbackDone
    /\ norm.title # <<>>
    /\ NothingUsable(norm.title)
    /\ norm.out = <<"p","r","o","d","u","c","t">>

(***************************************************************************)
(* C30                                                                     *)
(***************************************************************************)
\* both searchYouTube calls have answered and their queries have one cache key
BothDoneSameKey ==
    /\ pc = "done"
    /\ other.pc = "done"
    /\ msg.action = "searchYouTube"
    /\ other.msg.action = "searchYouTube"
    /\ getCacheKey(msg.query) = getCacheKey(other.msg.query)

\* the entry that the later of the two calls' setCachedResults wrote, and
\* the results which that call answered with
LastPut == IF trace.putLast THEN trace.put[1] ELSE other.trace.put[1]
LastPutResults == IF trace.putLast THEN response.data ELSE other.response.data

\* C30: when two searchYouTube calls for one cache key overlap and at least
\* one of them stored its results, then after both have answered the cache
\* entry of the key is exactly the {results, fetchedAt} that the last
\* setCachedResults wrote, which is the complete result of that call.
C30_LastWriteWins ==
    (BothDoneSameKey /\ (trace.putLast \/ other.trace.putLast))
        => /\ getCacheKey(msg.query) \in DOMAIN cache
           /\ cache[getCacheKey(msg.query)] = LastPut
           /\ LastPut.results = LastPutResults

(***************************************************************************)
(* searchYouTubeForProduct with proxy answers whose entries are incomplete *)
(***************************************************************************)
\* what an OK answer of the proxy can carry in `results` or in `videos`: the
\* proxy is a remote service and its JSON body is taken as it comes
LooseProxyResponses ==
    { [kind |-> "abort", status |-> 0, quota |-> FALSE, success |-> FALSE,
       results |-> None, videos |-> None] }
    \cup { [kind |-> "ok", status |-> 200, quota |-> FALSE, success |-> TRUE,
            results |-> Some(rs), videos |-> None] :
             rs \in { <<VideoResult("p1", "Chan", 5, None)>>,
                      <<VideoResult("", "Chan", 5, None),
                        VideoResult("p1", "Chan", 5, None)>> } }
    \cup { [kind |-> "ok", status |-> 200, quota |-> FALSE, success |-> FALSE,
            results |-> None, videos |-> Some(vs)] :
             vs \in { <<LegacyVideo("p3", None, Some("Chan"), Some(9))>>,
                      <<LegacyVideo("p2", Some("Name"), None, None)>>,
                      <<LegacyVideo("", Some("Name"), None, Some(7))>> } }

ProxyAnswerLoose ==
    /\ pc = "proxy"
    /\ \E r \in LooseProxyResponses : Install(proxyAnswer(World, r))
    /\ UNCHANGED <<calls, ticks>>

NextResults ==
    \/ RecvSearchYouTubeForProduct
    \/ ProxyAnswerLoose
    \/ AiAnswer
    \/ CacheGet
    \/ CacheRemove
    \/ SearchAnswerPlain
    \/ StatsAnswerPlain

SpecResults == Init /\ [][NextResults]_vars

\* a VideoResult with a videoId and a count of views
WellFormedResult(v) == v.videoId # "" /\ v.viewCount \in Nat

\* C31: every VideoResult that searchYouTubeForProduct answers with, from
\* the proxy's results array, the proxy's legacy videos array, the cache or
\* the provider, has a non-empty videoId and a non-negative integer
\* viewCount.
C31_ResultsWellFormed ==
    (ProductDone /\ response.success) =>
        \A i \in 1..Len(response.data) : WellFormedResult(response.data[i])

(***************************************************************************)
(* searchYouTubeForProduct with the AI rewrite asked for                   *)
(***************************************************************************)
\* onMessage: { action: 'searchYouTubeForProduct', title, useAI: true }
RecvSearchYouTubeForProductAI ==
    /\ Idle
    /\ calls < MaxProductCalls
    /\ \E title \in {Str_Echo_Dot, Title_AirPods} :
          LET w == [Fresh EXCEPT !.msg = [NoMsg EXCEPT !.action = "searchYouTubeForProduct",
                                                       !.title = title, !.useAI = TRUE]]
          IN  Install(searchYouTubeForProduct(w))
    /\ calls' = calls + 1
    /\ UNCHANGED ticks

\* the proxy is out of reach (its fetch is aborted after 25 s), so that the
\* call goes on to the local search
NextAi ==
    \/ RecvSearchYouTubeForProductAI
    \/ ProxyTimeout
    \/ AiAnswer
    \/ CacheGet
    \/ CacheRemove
    \/ SearchAnswerPlain
    \/ StatsAnswerPlain

SpecAi == Init /\ [][NextAi]_vars

\* the rewrite was asked for and did not deliver a rewritten title: the
\* Groq request failed and optimizeTitleForYouTube returned its own basic
\* normalisation, or optimizeTitleForYouTube itself threw
AiFailed == ProductCall /\ msg.useAI /\ trace.ai \in {"fallback", "throws"}

\* C32: when the AI rewrite is asked for and fails, searchYouTubeForProduct
\* does not fail because of it, and the queries it goes on to try are exactly
\* the variants of generateSearchQueries for the title.
C32_AiFailureUsesVariants ==
    AiFailed =>
        /\ (pc = "done" /\ ~response.success) => response.error = MsgUnavailable
        /\ (local.apiKey # NoKey) => local.queries = generateSearchQueries(msg.title)

(***************************************************************************)
(* C33                                                                     *)
(***************************************************************************)
\* the characters a..b of s are a qualifier word (pro, plus, max, ultra in
\* any letter case) that stands between word boundaries
QualifierAt(s, a, b) ==
    /\ toLowerCase(SubSeq(s, a, b)) \in QUALIFIERS
    /\ boundaryBefore(s, a)
    /\ boundaryAfter(s, b)

QualifierLengths == {Len(q) : q \in QUALIFIERS}

ContainsQualifier(s) ==
    \E a \in 1..Len(s) : \E n \in QualifierLengths :
        a + n - 1 <= Len(s) /\ QualifierAt(s, a, a + n - 1)

\* s without the characters of its qualifier words, trimmed
WithoutQualifiers(s) ==
    LET inQualifier(i) == \E n \in QualifierLengths : \E a \in (i - n + 1)..i :
                              a >= 1 /\ a + n - 1 <= Len(s) /\ QualifierAt(s, a, a + n - 1)
    IN  trim(SelectSeq([i \in 1..Len(s) |-> IF inQualifier(i) THEN Dropped ELSE s[i]],
                       LAMBDA c : c # Dropped))

\* the comparison queries among qs for the base query n: those that are n
\* followed by " vs " and something
ComparisonQueries(qs, n) ==
    { i \in 1..Len(qs) : startsWithAt(qs[i], 1, n \o Str_vs) }

\* C33: a title that contains a qualifier word gets the comparison
\* query "<base> vs <base-without-qualifier>", a title without one gets no
\* comparison query.
C33_ComparisonIffQualifierInTitle ==
    (GenerateQueriesDone /\ ~norm.threw /\ norm.title # <<>>) =>
        IF ContainsQualifier(norm.title)
        THEN \E i \in 1..Len(norm.queries) :
                 norm.queries[i] = norm.out \o Str_vs \o WithoutQualifiers(norm.out)
        ELSE ComparisonQueries(norm.queries, norm.out) = {}

(***************************************************************************)
(* C34                                                                     *)
(***************************************************************************)
\* the entry stored under key k has not reached the TTL
FreshEntry(k) == k \in DOMAIN cache /\ now - cache[k].fetchedAt < CACHE_TTL

\* C34: no step of two interleaved searchYouTube calls deletes a cache entry
\* that is still fresh: the removal that follows the read of an expired entry
\* takes away stale data only, and a stored fresh entry stays under its key
\* (as it is or overwritten) while its TTL has not elapsed.
C34_EvictionOnlyStale ==
    [][\A k \in DOMAIN cache : FreshEntry(k) => k \in DOMAIN cache']_vars

(***************************************************************************)
(* The settings page: saving and deleting the YouTube API key              *)
(***************************************************************************)
\* the save button: the key is sent to the service worker with setApiKey
\* (whose handler keeps it in config and in storage), then stored together
\* with useOwnYouTubeKey: true
SettingsSave ==
    /\ settings.pc = "idle"
    /\ \E key \in Keys :
          /\ config' = [config EXCEPT !.apiKey = key]
          /\ storage' = [youtubeApiKey |-> key, useOwnYouTubeKey |-> TRUE]
    /\ settings' = [settings EXCEPT !.pc = "saved"]
    /\ UNCHANGED <<cache, now, pc, msg, local, sy, api, stats, response, trace,
                   cachedFor, calls, ticks, popup, llm, norm, other, auto>>

\* the delete button: chrome.storage.local.remove(['youtubeApiKey',
\* 'useOwnYouTubeKey']), whose callback sends { action: 'setApiKey', apiKey: '' }
SettingsDelete ==
    /\ settings.pc \in {"idle", "saved"}
    /\ storage.youtubeApiKey # NoKey
    /\ storage' = [youtubeApiKey |-> NoKey, useOwnYouTubeKey |-> FALSE]
    /\ settings' = [pc |-> "deleting", deletedKey |-> storage.youtubeApiKey]
    /\ UNCHANGED <<config, cache, now, pc, msg, local, sy, api, stats, response,
                   trace, cachedFor, calls, ticks, popup, llm, norm, other, auto>>

\* onMessage: { action: 'setApiKey', apiKey: '' }: `if (!message.apiKey)`
\* answers 'API key is required' and setApiKey is not called
RecvSetApiKeyEmpty ==
    /\ settings.pc = "deleting"
    /\ settings' = [settings EXCEPT !.pc = "deleted"]
    /\ UNCHANGED <<config, storage, cache, now, pc, msg, local, sy, api, stats,
                   response, trace, cachedFor, calls, ticks, popup, llm, norm, other, auto>>

\* a product search that starts after the deletion
RecvSearchYouTubeForProductDeleted ==
    /\ settings.pc = "deleted"
    /\ RecvSearchYouTubeForProduct

\* the proxy does not answer (its fetch is aborted after 25 s)
NextDelete ==
    \/ SettingsSave
    \/ SettingsDelete
    \/ RecvSetApiKeyEmpty
    \/ RecvSearchYouTubeForProductDeleted
    \/ ProxyTimeout
    \/ AiAnswer
    \/ CacheGet
    \/ CacheRemove
    \/ SearchAnswerPlain
    \/ StatsAnswerPlain

SpecDelete == Init /\ [][NextDelete]_vars

\* the call has queries to try (with an empty variant set it answers before
\* it looks for credentials)
HasQueries == msg.useAI \/ generateSearchQueries(msg.title) # <<>>

\* C35: after the YouTube API key was deleted on the settings page (and no
\* new key was saved), no provider request of a later product search carries
\* the deleted key, and such a search, with the proxy out of reach, answers
\* with the error that no credentials are configured.
C35_DeletedKeyUnused ==
    (ProductCall /\ settings.pc = "deleted") =>
        /\ settings.deletedKey \notin trace.keys
        /\ (ProductDone /\ ProxyFailed /\ HasQueries) =>
               (~response.success /\ response.error = MsgUnavailable)

(***************************************************************************)
(* The AMAZON_PRODUCT_DETECTED handler (src/background/youtube.ts)         *)
(***************************************************************************)
AutoTtl == 24 * 60 * 60 * 1000     \* `age < 24 * 60 * 60 * 1000`
MaxAutoCalls == 2                  \* AMAZON_PRODUCT_DETECTED messages in one behaviour
Asins == {"B01"}

MsgResultsReady  == "YOUTUBE_RESULTS_READY"
MsgSearchStarted == "YOUTUBE_SEARCH_STARTED"
MsgSearchError   == "YOUTUBE_SEARCH_ERROR"

\* a test that takes no entry for fresh
autoIsFreshNever(age) == FALSE

\* `age < 24 * 60 * 60 * 1000`
autoIsFresh(age) == age < AutoTtl

\* the handler after `await chrome.storage.local.get(cacheKey)`: the cached
\* results are sent, or the search is announced and started (useAI is
\* !!groqKey, and getGroqApiKey returns the built-in key when the user has
\* none)
autoGet(w) ==
    IF /\ w.auto.asin \in DOMAIN w.auto.entries
       /\ autoIsFresh(w.now - w.auto.entries[w.auto.asin].fetchedAt)
    THEN [tabsSendMessage(w, MsgResultsReady) EXCEPT
              !.pc = "done", !.auto.results = w.auto.entries[w.auto.asin].results]
    ELSE searchYouTubeForProduct(tabsSendMessage(w, MsgSearchStarted))

\* `await chrome.storage.local.set({ [cacheKey]: { results, fetchedAt } })`
\* settles: the results are sent, or (the write was rejected) the catch
\* block sends the error
autoPut(w, stored) ==
    IF stored
    THEN [tabsSendMessage(w, MsgResultsReady) EXCEPT
              !.pc = "done",
              !.auto.put = TRUE,
              !.auto.entries = [a \in DOMAIN w.auto.entries \cup {w.auto.asin} |->
                                  IF a = w.auto.asin
                                  THEN [results |-> w.auto.results, fetchedAt |-> w.now]
                                  ELSE w.auto.entries[a]]]
    ELSE autoSearchThrows(w)

\* an entry of the ASIN of the message in progress is stored and younger
\* than 24 hours
FreshAutoEntry ==
    /\ auto.asin \in DOMAIN auto.entries
    /\ now - auto.entries[auto.asin].fetchedAt < 24 * 60 * 60 * 1000

\* onMessage: { type: 'AMAZON_PRODUCT_DETECTED', title, asin } from a tab;
\* `if (!tabId || !title) return`
RecvAmazonProductDetected ==
    /\ Idle
    /\ calls < MaxAutoCalls
    /\ \E title \in {<<>>, Str_Echo_Dot}, asin \in Asins :
          Install([Fresh EXCEPT
              !.msg = [NoMsg EXCEPT !.action = MsgAutoDetected, !.title = title,
                                    !.useAI = TRUE],
              !.pc = IF title = <<>> THEN "done" ELSE "autoGet",
              !.auto = [entries |-> auto.entries, asin |-> asin, results |-> <<>>,
                        sent |-> <<>>, hadFresh |-> FALSE, put |-> FALSE]])
    /\ calls' = calls + 1
    /\ UNCHANGED ticks

AutoGet ==
    /\ pc = "autoGet"
    /\ Install([autoGet(World) EXCEPT !.auto.hadFresh = FreshAutoEntry])
    /\ UNCHANGED <<calls, ticks>>

AutoPut ==
    /\ pc = "autoPut"
    /\ \E stored \in BOOLEAN : Install(autoPut(World, stored))
    /\ UNCHANGED <<calls, ticks>>

\* a day passes
TickDay ==
    /\ ticks < MaxTicks
    /\ now' = now + AutoTtl
    /\ ticks' = ticks + 1
    /\ UNCHANGED <<config, storage, cache, pc, msg, local, sy, api, stats,
                   response, trace, cachedFor, calls, popup, llm, norm, other,
                   settings, auto>>

NextAuto ==
    \/ RecvAmazonProductDetected
    \/ AutoGet
    \/ AutoPut
    \/ TickDay
    \/ ProxyAnswerLoose
    \/ AiAnswer
    \/ CacheGet
    \/ CacheRemove
    \/ SearchAnswerPlain
    \/ StatsAnswerPlain

\* the youtube_search_* cache starts empty
InitAuto ==
    /\ Init
    /\ cache = << >>

SpecAuto == InitAuto /\ [][NextAuto]_vars

AutoCall == msg.action = MsgAutoDetected /\ msg.title # <<>>
AutoDone == AutoCall /\ pc = "done"

\* the proxy gave nothing (or was not asked, the user's own key being
\* chosen) and every query variant was tried and threw
EverySourceFailed ==
    /\ trace.proxy \in {"none", "quota", "abort", "failed"}
    /\ local.queries # <<>>
    /\ Len(trace.searched) = Len(local.queries)
    /\ \A i \in 1..Len(trace.searched) : ~trace.searched[i].ok

\* C36: the handler of AMAZON_PRODUCT_DETECTED never stores an auto_search
\* entry for a search in which every source and every variant failed.
C36_FailedSearchNotCached ==
    (AutoDone /\ EverySourceFailed) => ~auto.put

(***************************************************************************)
(* C37                                                                     *)
(***************************************************************************)
\* the positions in auto.sent of the messages of the given types
SentAt(types) == {i \in 1..Len(auto.sent) : auto.sent[i] \in types}

TerminalTypes == {MsgResultsReady, MsgSearchError}

\* C37: for an AMAZON_PRODUCT_DETECTED message with a tab id and a title the
\* tab is sent at most one of YOUTUBE_RESULTS_READY and YOUTUBE_SEARCH_ERROR;
\* once the handler has read the auto-search cache, YOUTUBE_SEARCH_STARTED
\* has been sent (once) exactly if no fresh entry was stored, and it precedes
\* the terminal message.
C37_OneTerminalMessage ==
    AutoCall =>
        /\ Cardinality(SentAt(TerminalTypes)) <= 1
        /\ pc # "autoGet" =>
               Cardinality(SentAt({MsgSearchStarted})) = (IF auto.hadFresh THEN 0 ELSE 1)
        /\ \A i \in SentAt({MsgSearchStarted}), j \in SentAt(TerminalTypes) : i < j

\* both courses have been taken: a search that was announced and delivered
\* results, then a message answered from the fresh entry
C37_Witness ==
    /\ AutoDone
    /\ auto.hadFresh
    /\ auto.sent = <<MsgResultsReady>>
    /\ calls = 2

(***************************************************************************)
(* C38                                                                     *)
(***************************************************************************)
RECURSIVE SumOf(_)
SumOf(sleeps) == IF sleeps = <<>> THEN 0 ELSE Head(sleeps) + SumOf(Tail(sleeps))

\* the provider call has ended after `attempts`, all of them rate-limited
Exhausted(attempts, end) ==
    end = "threw" /\ Len(attempts) = RETRIES /\ AllRateLimited(attempts)

\* C38: in a provider call every backoff sleep is followed by another HTTP
\* attempt, so that a call that has ended slept fewer times than it made
\* attempts, and a call that ended with all of its three attempts
\* rate-limited slept 1000 + 2000 = 3000 ms in total.
C38_SleepsOnlyBeforeAttempts ==
    /\ (trace.sEnd \in {"threw", "returned"} /\ trace.sSleeps # <<>>) =>
           Len(trace.sSleeps) < Len(trace.sAttempts)
    /\ (trace.vEnd \in {"threw", "returned"} /\ trace.vSleeps # <<>>) =>
           Len(trace.vSleeps) < Len(trace.vAttempts)
    /\ Exhausted(trace.sAttempts, trace.sEnd) => SumOf(trace.sSleeps) = 3000
    /\ Exhausted(trace.vAttempts, trace.vEnd) => SumOf(trace.vSleeps) = 3000

(***************************************************************************)
(* A single-object body that reports no product                            *)
(***************************************************************************)
\* the body the backend sends when it found no product: no products array,
\* productName null or empty, confidence a number
ReportsNoProduct(b) ==
    /\ ~IsProductsArray(b)
    /\ b.productName.t = "null" \/ (b.productName.t = "string" /\ b.productName.s = "")
    /\ b.confidence.t = "number"

\* C39: a single-object body that reports no product (productName null or
\* empty, confidence a number) makes extractProductsWithLLM return the empty
\* list without an error, not raise the invalid-structure error.
C39_NoProductIsEmptyList ==
    (LlmDone /\ ReportsNoProduct(llm.answer.body)) =>
        (~llm.threw /\ llm.products = <<>>)

(***************************************************************************)
(* The popup's timers against the proxy timer of the service worker        *)
(***************************************************************************)
POPUP_TIMEOUT == 15000     \* both timers of handleSearch
PROXY_TIMEOUT == 25000     \* the timer of the proxy fetch

\* the timers that are running: the popup's timer while it waits for the
\* backend or for the service worker, and the timer of the proxy fetch,
\* which the handler starts in the step that receives the popup's message
Deadlines ==
    (IF popup.pc \in {"backend", "worker"} THEN {popup.timerAt + POPUP_TIMEOUT} ELSE {})
    \cup (IF pc = "proxy" THEN {popup.timerAt + PROXY_TIMEOUT} ELSE {})

NextDeadline == CHOOSE d \in Deadlines : \A e \in Deadlines : d <= e

\* the backend stays silent: time passes, up to the next timer, while the
\* popup waits for the backend or the service worker waits for the proxy
TimePasses ==
    /\ popup.pc = "backend" \/ pc = "proxy"
    /\ now < NextDeadline
    /\ now' = NextDeadline
    /\ UNCHANGED <<config, storage, cache, pc, msg, local, sy, api, stats,
                   response, trace, cachedFor, calls, ticks, popup, llm, norm,
                   other, settings, auto>>

\* setTimeout(() => controller.abort(), 15000) of the popup's own request
\* fires: the AbortError is caught and the popup turns to the service worker
PopupBackendAbort ==
    /\ popup.pc = "backend"
    /\ now >= popup.timerAt + POPUP_TIMEOUT
    /\ popup' = [popup EXCEPT !.pc = "send", !.backend = "abort"]
    /\ UNCHANGED <<config, storage, cache, now, pc, msg, local, sy, api, stats,
                   response, trace, cachedFor, calls, ticks, llm, norm, other,
                   settings, auto>>

\* the 15 s timer of the Promise.race fires
PopupTimeoutDue ==
    /\ now >= popup.timerAt + POPUP_TIMEOUT
    /\ PopupTimeout

\* the 25 s timer of the proxy fetch fires
ProxyTimeoutDue ==
    /\ now >= popup.timerAt + PROXY_TIMEOUT
    /\ ProxyTimeout

\* a product search started from the popup while the backend never answers;
\* the provider and the storage answer at once
NextSilent ==
    \/ PopupHandleSearch
    \/ PopupBackendAbort
    \/ PopupSendMessage
    \/ PopupReceive
    \/ PopupTimeoutDue
    \/ ProxyTimeoutDue
    \/ TimePasses
    \/ AiAnswer
    \/ CacheGet
    \/ CacheRemove
    \/ SearchAnswerPlain
    \/ StatsAnswerPlain

SpecSilent == Init /\ [][NextSilent]_vars

\* a key for the provider is stored
HasCredentials == storage.youtubeApiKey # NoKey

\* C40: with a stored provider key and a backend that never answers, the
\* popup reports 'Request timed out' only after the service worker has
\* delivered its response, so the popup's timers never pre-empt the results
\* of the provider fallback.
C40_PopupWaitsForWorker ==
    [][(HasCredentials /\ popup.error # MsgPopupTimeout /\ popup'.error = MsgPopupTimeout)
          => (pc = "done" /\ response.sent)]_vars

====
